---- MODULE Spec2Model ----
(***************************************************************************)
(* A model of sqlvet's SQL validator (pkg/vet/vet.go, pkg/vet/astjson.go). *)
(*                                                                         *)
(* The JSON tree of the parser is modelled by records: a wrapper node      *)
(* {"Kind": {body}} is the record [kind |-> "Kind", <body fields>], a JSON *)
(* array is a sequence, an absent value (Go's nil map) is Nil.  A Go map   *)
(* is a function whose DOMAIN is its key set.  InnerSchema.Tables is a Go  *)
(* map, hence shared by every copy of a VetContext: the walker threads it  *)
(* through every call as the field `ctx` of its results.                   *)
(***************************************************************************)
EXTENDS Integers, Sequences, FiniteSets, TLC

VARIABLES
    mode,       \* the component a run exercises: "collector" or "validator"
    tables,     \* the schema.Table map of the caller, as it was built
    ctx,        \* the caller's VetContext (its two Go maps included)
    calls,      \* validation calls made with the caller's current VetContext
    pc,         \* "idle", or "loop" inside ValidateSqlQueries
    op,         \* the entry point last called
    input,      \* the parse result handed to the entry point last called
    idx,        \* ValidateSqlQueries: number of statements validated so far
    out,        \* ValidateSqlQueries: the per-statement params gathered so far
    ret,        \* what the last call returned
    ctxAt,      \* ValidateSqlQueries: the caller's VetContext before each statement
    target,     \* a []QueryParam built by AddQueryParam / AddQueryParams
    inserted,   \* the numbers handed to AddQueryParam for `target` so far
    analyzerSchemaLoaded,  \* analyzer.go 40, as every goroutine reads it
    analyzerSchema,        \* analyzer.go 41: 0 for nil, else the directory it was loaded from
    pkgDir,     \* the directory of the first file of the package each run analyzes
    runAt,      \* where each invocation of run is
    stores,     \* the writes of a run's load block the other goroutines do not see yet
    loads,      \* how many times the load block was executed
    sites,      \* the query sites each run has validated
    siteTables  \* the table sets query sites were validated against

vetVars == <<mode, tables, ctx, calls, pc, op, input, idx, out, ret, ctxAt, target, inserted>>

analyzerVars ==
    <<analyzerSchemaLoaded, analyzerSchema, pkgDir, runAt, stores, loads, sites, siteTables>>

vars == <<vetVars, analyzerVars>>

----------------------------------------------------------------------------
(* Bounds of the model *)

\* placeholder numbers $1 .. $MaxParam
MaxParam == 3
\* validation calls a caller makes with one VetContext before building a new one
MaxCalls == 2
\* length of the slice handed to AddQueryParams in one call
MaxBatch == 2
\* invocations of the analyzer's run in one process, one per package
MaxRuns == 2
\* query sites in a package
MaxSites == 2
\* directories the packages lie in
MaxDirs == 2

----------------------------------------------------------------------------
(* JSON accessors: astjson.go 23-96 *)

Nil == [kind |-> "nil"]

IsNil(n) == n.kind = "nil"

\* asNode(m[key]): the node under key, Nil when the key is absent
asNode(m, key) == IF key \in DOMAIN m THEN m[key] ELSE Nil

\* asList(m[key]): the list under key, empty when the key is absent
asList(m, key) == IF key \in DOMAIN m THEN m[key] ELSE <<>>

getStringField(obj, key) == IF key \in DOMAIN obj THEN obj[key] ELSE ""

getNumberField(obj, key) == IF key \in DOMAIN obj THEN obj[key] ELSE 0

getBoolField(obj, key) == IF key \in DOMAIN obj THEN obj[key] ELSE FALSE

\* jNode(m, k1, k2): the first of the spellings that holds a node
jNode(m, k1, k2) ==
    IF ~IsNil(asNode(m, k1)) THEN asNode(m, k1) ELSE asNode(m, k2)

\* jList(m, k1, k2): the first of the spellings that holds a list
jList(m, k1, k2) ==
    IF k1 \in DOMAIN m THEN m[k1] ELSE asList(m, k2)

\* nodeType(n): the key of the wrapper ("" for nil)
nodeType(n) == IF IsNil(n) THEN "" ELSE n.kind

\* asNode(n["Kind"]): the body of a wrapper of that kind, else Nil
unwrap(n, k) == IF nodeType(n) = k THEN n ELSE Nil

\* getRelationRangeVar: the RangeVar under "relation", wrapped or not
getRelationRangeVar(m) == IF ~IsNil(unwrap(m, "RangeVar")) THEN unwrap(m, "RangeVar") ELSE m

----------------------------------------------------------------------------
(* Errors.  errors.New / fmt.Errorf values, one shape for all:             *)
(* kind names the message, a and b its %s arguments, n1 and n2 its %d      *)
(* arguments, wrap the prefixes added by fmt.Errorf("...: %w").            *)

Err(k, a, b) == [kind |-> k, a |-> a, b |-> b, n1 |-> 0, n2 |-> 0, wrap |-> <<>>]

ErrN(k, n1, n2) == [kind |-> k, a |-> "", b |-> "", n1 |-> n1, n2 |-> n2, wrap |-> <<>>]

NoErr == Err("nil", "", "")

IsErr(e) == e.kind # "nil"

Wrap(prefix, e) == [e EXCEPT !.wrap = <<prefix>> \o @]

----------------------------------------------------------------------------
(* Parameter collector: vet.go 73-98 *)

RECURSIVE AddQueryParamFrom(_, _, _)
\* the loop of AddQueryParam from index i on
AddQueryParamFrom(params, param, i) ==
    IF i > Len(params) THEN Append(params, param)
    ELSE IF params[i] = param THEN params
    ELSE IF params[i] > param
         THEN SubSeq(params, 1, i - 1) \o (<<param>> \o SubSeq(params, i, Len(params)))
    ELSE AddQueryParamFrom(params, param, i + 1)

\* a collector that appends without looking for the place or for a duplicate
AddQueryParamAppend(params, param) == Append(params, param)

AddQueryParam(params, param) == AddQueryParamFrom(params, param, 1)

RECURSIVE AddQueryParamsFrom(_, _, _)
AddQueryParamsFrom(params, ps, i) ==
    IF i > Len(ps) THEN params
    ELSE AddQueryParamsFrom(AddQueryParam(params, ps[i]), ps, i + 1)

AddQueryParams(params, ps) == AddQueryParamsFrom(params, ps, 1)

----------------------------------------------------------------------------
(* Schema and context: vet.go 12-47 *)

\* a table that is writable whatever it is registered as
TableWritable(name, cols, ro) == [Name |-> name, Columns |-> cols, ReadOnly |-> FALSE]

\* schema.Table; Columns is the key set of the map[string]schema.Column
Table(name, cols, ro) == [Name |-> name, Columns |-> cols, ReadOnly |-> ro]

TableUsed(name, alias) == [Name |-> name, Alias |-> alias]

ColumnUsed(table, column) == [Table |-> table, Column |-> column]

\* a map write m[k] = v
MapSet(m, k, v) == (k :> v) @@ m

\* NewContext: a VetContext over the tables with a new, empty InnerSchema.
\* A Schema is [isNil, Tables]: isNil tells a nil map from an empty one.
NewContext(tbls) == [Schema |-> tbls, InnerSchema |-> <<>>, UsedTables |-> <<>>]

\* a registration that writes the table into the schema handed in
setOuterTable(c, name, t) == [c EXCEPT !.Schema.Tables = MapSet(@, name, t)]

\* ctx.InnerSchema.Tables[name] = t (astjson.go 577, 595, 811)
setInnerTable(c, name, t) == [c EXCEPT !.InnerSchema = MapSet(@, name, t)]

\* the context c as it reads after a callee that was handed a copy of it (or
\* a lateralCtx built from it) has returned: the maps are shared, UsedTables
\* is the caller's own
afterCall(c, callee) ==
    [c EXCEPT !.Schema = callee.Schema, !.InnerSchema = callee.InnerSchema]

\* &ParseResult{} in a function whose context is c; err and ctx carry the
\* error being returned and the context through the walk
NewParseResult(c) ==
    [Columns |-> <<>>, Tables |-> <<>>, Params |-> <<>>,
     PostponedNodes |-> [isNil |-> TRUE, RangeSubselectNodes |-> <<>>],
     err |-> NoErr, ctx |-> c]

\* return nil, nil, err
RetErr(e, c) ==
    [params |-> <<>>, pnil |-> TRUE, cols |-> <<>>, cnil |-> TRUE, err |-> e, ctx |-> c]

\* return params, cols, err
Ret(params, cols, e, c) ==
    [params |-> params, pnil |-> FALSE, cols |-> cols, cnil |-> FALSE, err |-> e, ctx |-> c]

----------------------------------------------------------------------------
(* Table and column resolution: vet.go 128-200 *)

validateTable(c, tname, notReadOnly) ==
    IF c.Schema.isNil THEN NoErr
    ELSE IF tname \notin DOMAIN c.Schema.Tables THEN Err("invalid table name", tname, "")
    ELSE IF notReadOnly /\ c.Schema.Tables[tname].ReadOnly THEN Err("read-only table", tname, "")
    ELSE NoErr

RECURSIVE usedTablesByName(_, _, _, _)
\* a first loop that keys usedTables by the tables' names only
usedTablesByName(c, tbls, i, m) ==
    IF i > Len(tbls) THEN [err |-> NoErr, m |-> m]
    ELSE LET tu == tbls[i]
             inInner == tu.Name \in DOMAIN c.InnerSchema
             inOuter == tu.Name \in DOMAIN c.Schema.Tables
             t == IF inInner THEN c.InnerSchema[tu.Name] ELSE c.Schema.Tables[tu.Name]
         IN  IF ~inInner /\ ~inOuter
             THEN [err |-> Err("invalid table name", tu.Name, ""), m |-> m]
             ELSE usedTablesByName(c, tbls, i + 1, MapSet(m, tu.Name, t))

RECURSIVE usedTablesSchemaFirst(_, _, _, _)
\* a first loop that takes a table from Schema when both schemas have the name
usedTablesSchemaFirst(c, tbls, i, m) ==
    IF i > Len(tbls) THEN [err |-> NoErr, m |-> m]
    ELSE LET tu == tbls[i]
             inInner == tu.Name \in DOMAIN c.InnerSchema
             inOuter == tu.Name \in DOMAIN c.Schema.Tables
             t == IF inOuter THEN c.Schema.Tables[tu.Name] ELSE c.InnerSchema[tu.Name]
             m1 == MapSet(m, tu.Name, t)
             m2 == IF tu.Alias # "" THEN MapSet(m1, tu.Alias, t) ELSE m1
         IN  IF ~inInner /\ ~inOuter
             THEN [err |-> Err("invalid table name", tu.Name, ""), m |-> m]
             ELSE usedTablesSchemaFirst(c, tbls, i + 1, m2)

RECURSIVE usedTablesFrom(_, _, _, _)
\* the first loop of validateTableColumns: [err, m], m the usedTables map
usedTablesFrom(c, tbls, i, m) ==
    IF i > Len(tbls) THEN [err |-> NoErr, m |-> m]
    ELSE LET tu == tbls[i]
             inInner == tu.Name \in DOMAIN c.InnerSchema
             inOuter == tu.Name \in DOMAIN c.Schema.Tables
             t == IF inInner THEN c.InnerSchema[tu.Name] ELSE c.Schema.Tables[tu.Name]
             m1 == MapSet(m, tu.Name, t)
             m2 == IF tu.Alias # "" THEN MapSet(m1, tu.Alias, t) ELSE m1
         IN  IF ~inInner /\ ~inOuter
             THEN [err |-> Err("invalid table name", tu.Name, ""), m |-> m]
             ELSE usedTablesFrom(c, tbls, i + 1, m2)

\* a resolution that refuses an unqualified column found under several names
resolveColumnUnique(usedTables, tbls, col) ==
    IF col.Table # ""
    THEN IF col.Table \notin DOMAIN usedTables
         THEN Err("table not available for query", col.Table, "")
         ELSE IF col.Column \notin usedTables[col.Table].Columns
         THEN Err("column is not defined in table", col.Column, col.Table)
         ELSE NoErr
    ELSE IF Cardinality({k \in DOMAIN usedTables : col.Column \in usedTables[k].Columns}) = 1
         THEN NoErr
         ELSE Err("column is not defined in any of the table available for query",
                  col.Column, "")

\* the body of the second loop of validateTableColumns for one column
resolveColumn(usedTables, tbls, col) ==
    IF col.Table # ""
    THEN IF col.Table \notin DOMAIN usedTables
         THEN Err("table not available for query", col.Table, "")
         ELSE IF col.Column \notin usedTables[col.Table].Columns
         THEN Err("column is not defined in table", col.Column, col.Table)
         ELSE NoErr
    ELSE IF \E k \in DOMAIN usedTables : col.Column \in usedTables[k].Columns
         THEN NoErr
         ELSE IF Cardinality(DOMAIN usedTables) = 1
         THEN Err("column is not defined in table", col.Column, tbls[1].Name)
         ELSE Err("column is not defined in any of the table available for query",
                  col.Column, "")

RECURSIVE resolveFrom(_, _, _, _)
resolveFrom(usedTables, tbls, cols, i) ==
    IF i > Len(cols) THEN NoErr
    ELSE LET e == resolveColumn(usedTables, tbls, cols[i])
         IN  IF IsErr(e) THEN e ELSE resolveFrom(usedTables, tbls, cols, i + 1)

\* a validateTableColumns that looks the tables up in a nil Schema.Tables too
validateTableColumnsAlways(c, tbls, cols) ==
    LET u == usedTablesFrom(c, tbls, 1, <<>>)
    IN  IF IsErr(u.err) THEN u.err
        ELSE resolveFrom(u.m, tbls, cols, 1)

\* validateTableColumns(ctx, tables, cols); InnerSchema.Tables is never nil
\* in a context of NewContext
validateTableColumns(c, tbls, cols) ==
    IF c.Schema.isNil THEN NoErr
    ELSE LET u == usedTablesFrom(c, tbls, 1, <<>>)
         IN  IF IsErr(u.err) THEN u.err
             ELSE resolveFrom(u.m, tbls, cols, 1)

----------------------------------------------------------------------------
(* Leaf collectors: astjson.go 701-790.  ColumnUsed.Location, a byte       *)
(* offset kept for diagnostics only, is left out.                          *)

jsonRangeVarToTableUsed(r) ==
    TableUsed(getStringField(r, "relname"),
              IF ~IsNil(asNode(r, "alias"))
              THEN getStringField(asNode(r, "alias"), "aliasname") ELSE "")

\* jsonColumnRefToColumnUsed: <<cu>>, or <<>> where the code returns nil
jsonColumnRefToColumnUsed(colRef) ==
    LET fields == asList(colRef, "fields")
        tbl == IF Len(fields) > 1 /\ ~IsNil(unwrap(fields[1], "String"))
               THEN getStringField(fields[1], "sval") ELSE ""
        colField == IF Len(fields) > 1 THEN fields[2] ELSE fields[1]
    IN  IF Len(fields) = 0 THEN <<>>
        ELSE IF ~IsNil(unwrap(colField, "String"))
        THEN <<ColumnUsed(tbl, getStringField(colField, "sval"))>>
        ELSE <<>>

RECURSIVE jsonGetTablesFromSelectStmt(_)
jsonGetTablesFromSelectStmt(from) ==
    IF Len(from) = 0 THEN <<>>
    ELSE LET n == Head(from)
             rv == IF ~IsNil(unwrap(n, "RangeVar"))
                   THEN <<jsonRangeVarToTableUsed(n)>> ELSE <<>>
             je == IF ~IsNil(unwrap(n, "JoinExpr"))
                   THEN jsonGetTablesFromSelectStmt(<<asNode(n, "larg"), asNode(n, "rarg")>>)
                   ELSE <<>>
         IN  rv \o je \o jsonGetTablesFromSelectStmt(Tail(from))

jsonGetColumnsFromNodeList(n) ==
    IF ~IsNil(unwrap(n, "ColumnRef")) THEN jsonColumnRefToColumnUsed(n) ELSE <<>>

RECURSIVE jsonGetColumnsFromSortClause(_)
jsonGetColumnsFromSortClause(sortList) ==
    IF Len(sortList) = 0 THEN <<>>
    ELSE LET sb == unwrap(Head(sortList), "SortBy")
             cr == unwrap(asNode(sb, "node"), "ColumnRef")
         IN  (IF ~IsNil(sb) /\ ~IsNil(cr) THEN jsonColumnRefToColumnUsed(cr) ELSE <<>>)
             \o jsonGetColumnsFromSortClause(Tail(sortList))

RECURSIVE jsonGetColumnsFromReturningList(_)
jsonGetColumnsFromReturningList(lst) ==
    IF Len(lst) = 0 THEN <<>>
    ELSE LET rt == unwrap(Head(lst), "ResTarget")
             cr == unwrap(asNode(rt, "val"), "ColumnRef")
         IN  (IF ~IsNil(rt) /\ ~IsNil(cr) THEN jsonColumnRefToColumnUsed(cr) ELSE <<>>)
             \o jsonGetColumnsFromReturningList(Tail(lst))

\* the Columns map built from a column list (astjson.go 573-576, 591-594, 804-810)
columnsOf(cols) == {cols[i].Column : i \in 1..Len(cols)}

----------------------------------------------------------------------------
(* The walker: astjson.go 113-699, 792-816.  A ParseResult re carries, in  *)
(* re.err and re.ctx, the error being returned and the context as the      *)
(* shared maps now read.  A walk is handed the ParseResult of the step     *)
(* before it; where the code has returned an error (re.err is set) the     *)
(* steps after it are not run, so they leave re as it is.                  *)

RECURSIVE jsonValidateNode(_, _), jsonValidateSelect(_, _), jsonValidateUpdate(_, _),
          jsonValidateInsert(_, _), jsonValidateDelete(_, _), jsonParseCTE(_, _),
          jsonParseFromClause(_, _), jsonParseExpr(_, _), parseItems(_, _, _),
          parseWindowDef(_, _), selFrom(_, _, _), selTargets(_, _, _),
          parseCTEs(_, _, _), registerCTE(_, _, _, _), insValues(_, _, _, _),
          insItems(_, _, _), insFrom(_, _, _), insTargets(_, _, _), delUsing(_, _, _)

\* the first element of a list of children, when there is one (args[0], pc[0])
parseFirst(list, re) ==
    IF Len(list) > 0 THEN jsonParseExpr(list[1], re) ELSE re

\* case "List": every item, stopping at the first error
parseItems(items, i, re) ==
    IF i > Len(items) \/ IsErr(re.err) THEN re
    ELSE parseItems(items, i + 1, jsonParseExpr(items[i], re))

\* partition_clause then order_clause of a window definition (641-652, 677-688)
parseWindowDef(wd, re) ==
    parseFirst(jList(wd, "order_clause", "orderClause"),
               parseFirst(jList(wd, "partition_clause", "partitionClause"), re))

\* what case "SubLink" does with the result r of jsonValidateSelect (664-668)
subLinkParams(re, r) ==
    IF IsErr(r.err) THEN [re EXCEPT !.err = r.err, !.ctx = afterCall(@, r.ctx)]
    ELSE [re EXCEPT !.Params = AddQueryParams(@, r.params), !.ctx = afterCall(@, r.ctx)]

\* case "SubLink" (662-670)
parseSubLink(n, re) ==
    subLinkParams(re, jsonValidateSelect(re.ctx, unwrap(asNode(n, "subselect"), "SelectStmt")))

jsonParseExpr(n, re) ==
    IF IsNil(n) \/ IsErr(re.err) THEN re
    ELSE CASE n.kind = "A_Expr" ->
                jsonParseExpr(asNode(n, "rexpr"), jsonParseExpr(asNode(n, "lexpr"), re))
           [] n.kind = "BoolExpr" -> parseFirst(asList(n, "args"), re)
           [] n.kind = "NullTest" -> jsonParseExpr(asNode(n, "arg"), re)
           [] n.kind = "ColumnRef" ->
                [re EXCEPT !.Columns = @ \o jsonColumnRefToColumnUsed(n)]
           [] n.kind = "ParamRef" ->
                [re EXCEPT !.Params = AddQueryParam(@, getNumberField(n, "number"))]
           [] n.kind = "FuncCall" ->
                parseWindowDef(asNode(n, "over"), parseFirst(asList(n, "args"), re))
           [] n.kind = "TypeCast" -> jsonParseExpr(asNode(n, "arg"), re)
           [] n.kind = "List" -> parseItems(asList(n, "items"), 1, re)
           [] n.kind = "SubLink" -> parseSubLink(n, re)
           [] n.kind = "CoalesceExpr" -> parseFirst(asList(n, "args"), re)
           [] n.kind = "WindowDef" -> parseWindowDef(n, re)
           [] n.kind = "SortBy" -> jsonParseExpr(asNode(n, "node"), re)
           [] n.kind = "JoinExpr" -> jsonParseFromClause(n, re)
           [] n.kind = "RangeVar" ->
                [re EXCEPT !.Tables = Append(@, jsonRangeVarToTableUsed(n))]
           [] n.kind = "RangeSubselect" -> jsonParseFromClause(n, re)
           [] OTHER -> re

\* the context a LATERAL subquery is validated in (557-562)
lateralCtx(re) ==
    [Schema |-> re.ctx.Schema, InnerSchema |-> re.ctx.InnerSchema, UsedTables |-> re.Tables]

\* what case "RangeSubselect" does with the result r of jsonValidateSelect
\* (565-597): the alias is registered with the columns the subquery returned
registerSubselect(n, re, r) ==
    LET c == afterCall(re.ctx, r.ctx)
        alias == getStringField(asNode(n, "alias"), "aliasname")
        t == Table(alias, columnsOf(r.cols), TRUE)
    IN  IF IsErr(r.err) THEN [re EXCEPT !.err = r.err, !.ctx = c]
        ELSE IF alias # ""
        THEN [re EXCEPT !.Params = AddQueryParams(@, r.params),
                        !.ctx = setInnerTable(c, t.Name, t),
                        !.Tables = Append(@, TableUsed(t.Name, ""))]
        ELSE [re EXCEPT !.Params = AddQueryParams(@, r.params), !.ctx = c]

\* case "RangeSubselect" (547-598): PostponedNodes is made, the subquery is
\* validated, the alias registered
fromRangeSubselect(n, re) ==
    registerSubselect(n, [re EXCEPT !.PostponedNodes.isNil = FALSE],
        jsonValidateSelect(IF getBoolField(n, "lateral") THEN lateralCtx(re) ELSE re.ctx,
                           unwrap(asNode(n, "subquery"), "SelectStmt")))

jsonParseFromClause(n, re) ==
    IF IsNil(n) \/ IsErr(re.err) THEN re
    ELSE CASE n.kind = "RangeVar" ->
                [re EXCEPT !.Tables = Append(@, jsonRangeVarToTableUsed(n))]
           [] n.kind = "JoinExpr" ->
                jsonParseExpr(asNode(n, "quals"),
                    jsonParseFromClause(asNode(n, "rarg"),
                        jsonParseFromClause(asNode(n, "larg"), re)))
           [] n.kind = "RangeSubselect" -> fromRangeSubselect(n, re)
           [] OTHER -> re

\* what the loop of jsonParseCTE does with the result r of the i-th CTE's
\* query (799-813), then the CTEs after it
registerCTE(ctes, i, c, r) ==
    LET c1 == afterCall(c, r.ctx)
        name == getStringField(ctes[i], "ctename")
        columns == IF r.cnil THEN {} ELSE columnsOf(r.cols)
    IN  IF IsErr(r.err) THEN [err |-> r.err, ctx |-> c1]
        ELSE parseCTEs(ctes, i + 1, setInnerTable(c1, name, Table(name, columns, TRUE)))

\* the loop of jsonParseCTE from the i-th CTE on: [err, ctx]
parseCTEs(ctes, i, c) ==
    IF i > Len(ctes) THEN [err |-> NoErr, ctx |-> c]
    ELSE IF IsNil(unwrap(ctes[i], "CommonTableExpr")) THEN parseCTEs(ctes, i + 1, c)
    ELSE registerCTE(ctes, i, c, jsonValidateNode(c, asNode(ctes[i], "ctequery")))

jsonParseCTE(c, with) == parseCTEs(asList(with, "ctes"), 1, c)

----------------------------------------------------------------------------
(* Statement validators: astjson.go 100-521.  A statement's locals are the *)
(* record st: usedCols, queryParams, the table lists, the error being      *)
(* returned (err) and the context as the shared maps now read (ctx).  The  *)
(* steps of a validator run in the order of the code, each on the st of    *)
(* the step before; after a return with an error (st.err is set) the       *)
(* later steps leave st as it is.                                          *)

\* usedCols and queryParams take what a sub-walk gathered (155-169, 182-187)
absorb(st, re) ==
    [st EXCEPT !.usedCols = @ \o re.Columns,
               !.queryParams = AddQueryParams(@, re.Params),
               !.ctx = re.ctx]

fail(st, e, c) == [st EXCEPT !.err = e, !.ctx = c]

hasAlias(t) == t.Alias # ""

\* `if err != nil { return nil, nil, err }` after a sub-walk, else its
\* columns and params are taken; prefix is the text the error is wrapped
\* with ("" for none)
take(st, prefix, re) ==
    IF IsErr(re.err)
    THEN fail(st, IF prefix = "" THEN re.err ELSE Wrap(prefix, re.err), re.ctx)
    ELSE absorb(st, re)

\* `if err := jsonParseCTE(ctx, with); err != nil { return nil, nil, err }`
withResult(st, w) == fail(st, w.err, w.ctx)

\* the with clause of a statement (141-146, 270-274, 347-351, 469-473)
stmtWith(with, st) ==
    IF IsNil(with) THEN st ELSE withResult(st, jsonParseCTE(st.ctx, with))

\* the relation of UPDATE, INSERT, DELETE is a table that can be written
\* (276-281, 352-357, 474-479)
checkTable(st, tableName) ==
    IF IsErr(st.err) THEN st
    ELSE [st EXCEPT !.err = validateTable(st.ctx, tableName, TRUE)]

\* usedCols = append(usedCols, cols...)
addCols(st, cols) ==
    IF IsErr(st.err) THEN st ELSE [st EXCEPT !.usedCols = @ \o cols]

\* what the FROM loop of SELECT does with the ParseResult of one item (152-169)
takeFrom(st, re) ==
    IF IsErr(re.err) THEN fail(st, re.err, re.ctx)
    ELSE [absorb(st, re) EXCEPT
             !.localTables = @ \o re.Tables,
             !.localContextTables = @ \o SelectSeq(re.Tables, hasAlias)]

\* SELECT, FROM/JOIN tables (148-170)
selFrom(from, i, st) ==
    IF i > Len(from) \/ IsErr(st.err) THEN st
    ELSE selFrom(from, i + 1,
             takeFrom(st, jsonParseFromClause(from[i], NewParseResult(st.ctx))))

\* SELECT, targets (172-188)
selTargets(list, i, st) ==
    IF i > Len(list) \/ IsErr(st.err) THEN st
    ELSE IF IsNil(unwrap(list[i], "ResTarget")) THEN selTargets(list, i + 1, st)
    ELSE selTargets(list, i + 1,
             take(st, "", jsonParseExpr(asNode(list[i], "val"), NewParseResult(st.ctx))))

\* an optional clause walked by jsonParseExpr into usedCols and queryParams
\* (190-202, 209-221, 325-332, 421-432)
clause(n, prefix, st) ==
    IF IsNil(n) \/ IsErr(st.err) THEN st
    ELSE take(st, prefix, jsonParseExpr(n, NewParseResult(st.ctx)))

\* the first node of a list, Nil for the empty list
firstNode(list) == IF Len(list) > 0 THEN list[1] ELSE Nil

\* vet.go 211: the stub PostponedNodes.Parse calls for each postponed node
parseRangeSubselect(c, r, re) == NoErr

\* SELECT, postponed nodes (238-253), re the ParseResult of line 139
selPostponed(re, st) ==
    LET nodes == re.PostponedNodes.RangeSubselectNodes
        errs == {i \in 1..Len(nodes) : IsErr(parseRangeSubselect(st.ctx, nodes[i], re))}
    IN  IF IsErr(st.err) \/ re.PostponedNodes.isNil THEN st
        ELSE IF errs # {}
        THEN fail(st, parseRangeSubselect(st.ctx, nodes[CHOOSE i \in errs : TRUE], re), st.ctx)
        ELSE [absorb(st, [re EXCEPT !.ctx = st.ctx]) EXCEPT !.localTables = @ \o re.Tables]

RECURSIVE groupColumns(_)
\* SELECT, GROUP BY (204-207)
groupColumns(list) ==
    IF Len(list) = 0 THEN <<>>
    ELSE jsonGetColumnsFromNodeList(Head(list)) \o groupColumns(Tail(list))

\* a SELECT that validates its tables only when it gathered a column
selReturnColumns(st) ==
    IF IsErr(st.err) THEN RetErr(st.err, st.ctx)
    ELSE Ret(st.queryParams, st.usedCols,
             IF Len(st.usedCols) > 0
             THEN validateTableColumns(st.ctx, st.localTables \o st.localContextTables,
                                       st.usedCols)
             ELSE NoErr,
             st.ctx)

\* SELECT, the validation of the tables and columns gathered (255-266)
selReturn(st) ==
    IF IsErr(st.err) THEN RetErr(st.err, st.ctx)
    ELSE Ret(st.queryParams, st.usedCols,
             validateTableColumns(st.ctx, st.localTables \o st.localContextTables, st.usedCols),
             st.ctx)

jsonValidateSelect(c, sel) ==
    LET s0 == [usedCols |-> <<>>, queryParams |-> <<>>, localTables |-> <<>>,
               localContextTables |-> c.UsedTables, err |-> NoErr, ctx |-> c]
        s1 == stmtWith(jNode(sel, "with_clause", "withClause"), s0)
        s2 == selFrom(jList(sel, "from_clause", "fromClause"), 1, s1)
        s3 == selTargets(jList(sel, "target_list", "targetList"), 1, s2)
        s4 == clause(jNode(sel, "where_clause", "whereClause"), "invalid WHERE clause", s3)
        s5 == addCols(s4, groupColumns(jList(sel, "group_clause", "groupClause")))
        s6 == clause(jNode(sel, "having_clause", "havingClause"), "", s5)
        s7 == clause(firstNode(jList(sel, "window_clause", "windowClause")), "", s6)
        s8 == addCols(s7, jsonGetColumnsFromSortClause(jList(sel, "sort_clause", "sortClause")))
        \* the ParseResult of line 139, which no walk is handed
        s9 == selPostponed(NewParseResult(c), s8)
    IN  selReturn(s9)

RECURSIVE updTargets(_, _, _, _)
\* UPDATE, target list (289-306)
updTargets(list, i, tableName, st) ==
    IF i > Len(list) \/ IsErr(st.err) THEN st
    ELSE LET rt == unwrap(list[i], "ResTarget")
             val == asNode(rt, "val")
             st1 == [st EXCEPT !.usedCols =
                        Append(@, ColumnUsed(tableName, getStringField(rt, "name")))]
             st2 == CASE nodeType(val) = "ColumnRef" ->
                            [st1 EXCEPT !.usedCols = @ \o jsonColumnRefToColumnUsed(val)]
                      [] nodeType(val) = "ParamRef" ->
                            [st1 EXCEPT !.queryParams =
                                AddQueryParam(@, getNumberField(val, "number"))]
                      [] OTHER -> st1
         IN  IF IsNil(rt) THEN updTargets(list, i + 1, tableName, st)
             ELSE updTargets(list, i + 1, tableName, st2)

RECURSIVE updFrom(_)
\* UPDATE, FROM clause (308-322)
updFrom(from) ==
    IF Len(from) = 0 THEN <<>>
    ELSE LET n == Head(from)
             rv == IF ~IsNil(unwrap(n, "RangeVar"))
                   THEN <<jsonRangeVarToTableUsed(n)>> ELSE <<>>
             je == IF ~IsNil(unwrap(n, "JoinExpr"))
                   THEN jsonGetTablesFromSelectStmt(<<asNode(n, "larg"), asNode(n, "rarg")>>)
                   ELSE <<>>
         IN  rv \o je \o updFrom(Tail(from))

\* an UPDATE or DELETE that returns what it gathered without validating it
checkColumnsNever(st, usedTables) ==
    IF IsErr(st.err) THEN RetErr(st.err, st.ctx)
    ELSE Ret(st.queryParams, st.usedCols, NoErr, st.ctx)

\* UPDATE and DELETE, the validation of the columns gathered, when there are
\* any (338-343, 514-519)
checkColumns(st, usedTables) ==
    LET ce == IF Len(st.usedCols) > 0
              THEN validateTableColumns(st.ctx, usedTables, st.usedCols) ELSE NoErr
    IN  IF IsErr(st.err) THEN RetErr(st.err, st.ctx)
        ELSE IF IsErr(ce) THEN RetErr(ce, st.ctx)
        ELSE Ret(st.queryParams, st.usedCols, NoErr, st.ctx)

jsonValidateUpdate(c, up) ==
    LET rv == getRelationRangeVar(asNode(up, "relation"))
        tableName == getStringField(rv, "relname")
        tableAlias == getStringField(asNode(rv, "alias"), "aliasname")
        usedTables == <<TableUsed(tableName, "")>>
                          \o updFrom(jList(up, "from_clause", "fromClause"))
        s0 == [usedCols |-> <<>>, queryParams |-> <<>>, err |-> NoErr, ctx |-> c]
        s1 == stmtWith(jNode(up, "with_clause", "withClause"), s0)
        s2 == checkTable(s1, tableName)
        s3 == updTargets(jList(up, "target_list", "targetList"), 1, tableName, s2)
        s4 == clause(jNode(up, "where_clause", "whereClause"), "invalid WHERE clause", s3)
        s5 == addCols(s4, jsonGetColumnsFromReturningList(
                              jList(up, "returning_list", "returningList")))
    IN  checkColumns(s5, Append(usedTables, TableUsed(tableName, tableAlias)))

\* INSERT, target columns (360-367)
insCols(list, tableName) ==
    LET isTarget(it) == ~IsNil(unwrap(it, "ResTarget"))
        rts == SelectSeq(list, isTarget)
    IN  [i \in 1..Len(rts) |-> ColumnUsed(tableName, getStringField(rts[i], "name"))]

\* INSERT, the values of one row (393-405)
insItems(items, i, st) ==
    IF i > Len(items) \/ IsErr(st.err) THEN st
    ELSE insItems(items, i + 1,
             take(st, "invalid value list", jsonParseExpr(items[i], NewParseResult(st.ctx))))

\* rows of values_lists that are walked without counting their values
RECURSIVE insValuesAny(_, _, _, _)
insValuesAny(vls, i, nTarget, st) ==
    IF i > Len(vls) \/ IsErr(st.err) THEN st
    ELSE LET list == unwrap(vls[i], "List")
         IN  IF IsNil(list) THEN fail(st, Err("panic", "interface conversion", ""), st.ctx)
             ELSE insValuesAny(vls, i + 1, nTarget, insItems(asList(list, "items"), 1, st))

\* INSERT, the rows of values_lists (387-406); a row that is no List wrapper
\* makes the type assertion of line 388 panic
insValues(vls, i, nTarget, st) ==
    IF i > Len(vls) \/ IsErr(st.err) THEN st
    ELSE LET list == unwrap(vls[i], "List")
             items == asList(list, "items")
         IN  IF IsNil(list) THEN fail(st, Err("panic", "interface conversion", ""), st.ctx)
             ELSE IF Len(items) # nTarget
             THEN fail(st, ErrN("column count doesn't match value count", nTarget, Len(items)),
                       st.ctx)
             ELSE insValues(vls, i + 1, nTarget, insItems(items, 1, st))

\* INSERT ... SELECT, FROM clause (409-420)
insFrom(from, i, st) ==
    IF i > Len(from) \/ IsErr(st.err) THEN st
    ELSE insFrom(from, i + 1,
             take(st, "", jsonParseFromClause(from[i], NewParseResult(st.ctx))))

\* what the target loop of INSERT ... SELECT does with the result r of the
\* jsonValidateSelect of a SubLink target (444-451)
takeSubLink(st, r) ==
    IF IsErr(r.err)
    THEN fail(st, Wrap("invalid SELECT query in value list", r.err), afterCall(st.ctx, r.ctx))
    ELSE [st EXCEPT !.queryParams = AddQueryParams(@, r.params),
                    !.ctx = afterCall(@, r.ctx)]

\* INSERT ... SELECT, target list (433-454)
insTargets(list, i, st) ==
    IF i > Len(list) \/ IsErr(st.err) THEN st
    ELSE LET tv == asNode(unwrap(list[i], "ResTarget"), "val")
         IN  IF nodeType(tv) = "ColumnRef"
             THEN insTargets(list, i + 1,
                      [st EXCEPT !.usedCols = @ \o jsonColumnRefToColumnUsed(tv)])
             ELSE IF nodeType(tv) = "SubLink"
             THEN insTargets(list, i + 1,
                      takeSubLink(st, jsonValidateSelect(st.ctx,
                                          unwrap(asNode(tv, "subselect"), "SelectStmt"))))
             ELSE insTargets(list, i + 1, st)

\* INSERT, the select_stmt: its values_lists, or else its FROM clause, WHERE
\* clause and target list (373-455)
insSelect(sel, nTarget, st) ==
    IF IsErr(st.err) THEN st
    ELSE IF IsNil(sel) THEN fail(st, Err("missing select_stmt", "", ""), st.ctx)
    ELSE IF "values_lists" \in DOMAIN sel
    THEN insValues(sel["values_lists"], 1, nTarget, st)
    ELSE IF "valuesLists" \in DOMAIN sel
    THEN insValues(sel["valuesLists"], 1, nTarget, st)
    ELSE insTargets(jList(sel, "target_list", "targetList"), 1,
             clause(jNode(sel, "where_clause", "whereClause"), "",
                 insFrom(jList(sel, "from_clause", "fromClause"), 1, st)))

\* INSERT, the validation of the columns gathered (460-465)
insReturn(st, usedTables) ==
    LET ce == validateTableColumns(st.ctx, usedTables, st.usedCols)
    IN  IF IsErr(st.err) THEN RetErr(st.err, st.ctx)
        ELSE IF IsErr(ce) THEN RetErr(ce, st.ctx)
        ELSE Ret(st.queryParams, st.usedCols, NoErr, st.ctx)

jsonValidateInsert(c, ins) ==
    LET rv == getRelationRangeVar(asNode(ins, "relation"))
        tableName == getStringField(rv, "relname")
        targetCols == insCols(asList(ins, "cols"), tableName)
        selNode == jNode(ins, "select_stmt", "selectStmt")
        sel == IF ~IsNil(unwrap(selNode, "SelectStmt"))
               THEN unwrap(selNode, "SelectStmt") ELSE selNode
        hasValues == "values_lists" \in DOMAIN sel \/ "valuesLists" \in DOMAIN sel
        usedTables == IF hasValues THEN <<TableUsed(tableName, "")>>
                      ELSE <<TableUsed(tableName, "")>>
                               \o jsonGetTablesFromSelectStmt(
                                      jList(sel, "from_clause", "fromClause"))
        s0 == [usedCols |-> targetCols, queryParams |-> <<>>, err |-> NoErr, ctx |-> c]
        s1 == stmtWith(jNode(ins, "with_clause", "withClause"), s0)
        s2 == checkTable(s1, tableName)
        s3 == insSelect(sel, Len(targetCols), s2)
        s4 == addCols(s3, jsonGetColumnsFromReturningList(
                              jList(ins, "returning_list", "returningList")))
    IN  insReturn(s4, usedTables)

\* a DELETE that takes whatever its WHERE clause yields, columns or none
takeWhereAny(st, re) ==
    IF IsErr(re.err) THEN fail(st, Wrap("invalid WHERE clause", re.err), re.ctx)
    ELSE [st EXCEPT !.usedCols = @ \o re.Columns, !.queryParams = re.Params,
                    !.ctx = re.ctx]

\* what DELETE does with the ParseResult of its WHERE clause (487-497)
takeWhere(st, re) ==
    IF IsErr(re.err) THEN fail(st, Wrap("invalid WHERE clause", re.err), re.ctx)
    ELSE IF Len(re.Columns) = 0
    THEN fail(st, Err("no columns in DELETE's WHERE clause", "", ""), re.ctx)
    ELSE [st EXCEPT !.usedCols = @ \o re.Columns, !.queryParams = re.Params,
                    !.ctx = re.ctx]

\* DELETE, WHERE clause (486-501)
delWhere(wc, st) ==
    IF IsErr(st.err) THEN st
    ELSE IF IsNil(wc) THEN fail(st, Err("no WHERE clause for DELETE", "", ""), st.ctx)
    ELSE takeWhere(st, jsonParseExpr(wc, NewParseResult(st.ctx)))

\* what the USING loop of DELETE does with the ParseResult of one item (504-508)
takeUsing(st, re) ==
    IF IsErr(re.err) THEN fail(st, re.err, re.ctx)
    ELSE [st EXCEPT !.usedTables = @ \o re.Tables, !.ctx = re.ctx]

\* DELETE, USING clause (503-509)
delUsing(list, i, st) ==
    IF i > Len(list) \/ IsErr(st.err) THEN st
    ELSE delUsing(list, i + 1,
             takeUsing(st, jsonParseExpr(list[i], NewParseResult(st.ctx))))

\* DELETE, the table deleted from joins the USING tables (514-519)
delReturn(st, tu) == checkColumns(st, Append(st.usedTables, tu))

jsonValidateDelete(c, del) ==
    LET rv == getRelationRangeVar(asNode(del, "relation"))
        tableName == getStringField(rv, "relname")
        tableAlias == getStringField(asNode(rv, "alias"), "aliasname")
        s0 == [usedCols |-> <<>>, queryParams |-> <<>>, usedTables |-> <<>>,
               err |-> NoErr, ctx |-> c]
        s1 == stmtWith(jNode(del, "with_clause", "withClause"), s0)
        s2 == checkTable(s1, tableName)
        s3 == delWhere(jNode(del, "where_clause", "whereClause"), s2)
        s4 == delUsing(jList(del, "using_clause", "usingClause"), 1, s3)
        s5 == addCols(s4, jsonGetColumnsFromReturningList(
                              jList(del, "returning_list", "returningList")))
    IN  delReturn(s5, TableUsed(tableName, tableAlias))

jsonValidateNode(c, n) ==
    CASE nodeType(n) = "SelectStmt" -> jsonValidateSelect(c, n)
      [] nodeType(n) = "UpdateStmt" -> jsonValidateUpdate(c, n)
      [] nodeType(n) = "InsertStmt" -> jsonValidateInsert(c, n)
      [] nodeType(n) = "DeleteStmt" -> jsonValidateDelete(c, n)
      [] OTHER -> RetErr(Err("unsupported statement", nodeType(n), ""), c)

\* a facade that only refuses the empty list and validates the first statement
jsonValidateQueryFirst(c, stmts) ==
    IF Len(stmts) = 0 THEN RetErr(Err("empty statement", "", ""), c)
    ELSE jsonValidateNode(c, asNode(stmts[1], "stmt"))

\* jsonValidateQuery(ctx, root): root["stmts"] is the list stmts
jsonValidateQuery(c, stmts) ==
    IF Len(stmts) = 0 THEN RetErr(Err("empty statement", "", ""), c)
    ELSE IF Len(stmts) > 1
    THEN RetErr(Err("query contained more than one statement", "", ""), c)
    ELSE jsonValidateNode(c, asNode(stmts[1], "stmt"))

----------------------------------------------------------------------------
(* The inputs: parse trees as go-pgquery's ParseToJSON emits them for the  *)
(* SQL text in the comment.                                                *)

Str(v) == [kind |-> "String", sval |-> v]
Col(c) == [kind |-> "ColumnRef", fields |-> <<Str(c)>>]
QCol(t, c) == [kind |-> "ColumnRef", fields |-> <<Str(t), Str(c)>>]
P(n) == [kind |-> "ParamRef", number |-> n]
Const == [kind |-> "A_Const"]
Op(l, r) == [kind |-> "A_Expr", lexpr |-> l, rexpr |-> r]
And(args) == [kind |-> "BoolExpr", boolop |-> "AND_EXPR", args |-> args]
Func(args) == [kind |-> "FuncCall", args |-> args]
Res(v) == [kind |-> "ResTarget", val |-> v]
ResAs(name, v) == [kind |-> "ResTarget", name |-> name, val |-> v]
RV(name) == [kind |-> "RangeVar", relname |-> name]
RVA(name, alias) ==
    [kind |-> "RangeVar", relname |-> name, alias |-> [kind |-> "Alias", aliasname |-> alias]]
Join(l, r, q) == [kind |-> "JoinExpr", larg |-> l, rarg |-> r, quals |-> q]
Sub(sel, alias, lateral) ==
    [kind |-> "RangeSubselect", lateral |-> lateral, subquery |-> sel,
     alias |-> [kind |-> "Alias", aliasname |-> alias]]
SubLink(sel) == [kind |-> "SubLink", subselect |-> sel]
Select(targets, from, where) ==
    [kind |-> "SelectStmt", targetList |-> targets, fromClause |-> from, whereClause |-> where]
CTE(name, q) == [kind |-> "CommonTableExpr", ctename |-> name, ctequery |-> q]
With(ctes, stmt) == ("withClause" :> [kind |-> "WithClause", ctes |-> ctes]) @@ stmt
Values(rows) == [kind |-> "SelectStmt", valuesLists |-> rows]
Row(items) == [kind |-> "List", items |-> items]
Insert(rel, cols, sel) ==
    [kind |-> "InsertStmt", relation |-> rel, cols |-> cols, selectStmt |-> sel]
Update(rel, targets, where) ==
    [kind |-> "UpdateStmt", relation |-> rel, targetList |-> targets, whereClause |-> where]
Delete(rel, where) == [kind |-> "DeleteStmt", relation |-> rel, whereClause |-> where]
Other(kind) == [kind |-> kind]

\* SELECT id, name FROM users WHERE id = $1
SelUsers == Select(<<Res(Col("id")), Res(Col("name"))>>, <<RV("users")>>, Op(Col("id"), P(1)))
\* SELECT u.id, p.title FROM users u JOIN posts p ON p.user_id = u.id WHERE u.email = $1
SelJoin ==
    Select(<<Res(QCol("u", "id")), Res(QCol("p", "title"))>>,
           <<Join(RVA("users", "u"), RVA("posts", "p"),
                  Op(QCol("p", "user_id"), QCol("u", "id")))>>,
           Op(QCol("u", "email"), P(1)))
\* SELECT u.id FROM users u JOIN posts p ON p.user_id = $2 WHERE u.id = $1
SelJoinParam ==
    Select(<<Res(QCol("u", "id"))>>,
           <<Join(RVA("users", "u"), RVA("posts", "p"), Op(QCol("p", "user_id"), P(2)))>>,
           Op(QCol("u", "id"), P(1)))
\* INSERT INTO users (id, name) VALUES ($1, $2, $3)
InsMismatch ==
    Insert(RV("users"), <<ResAs("id", Nil), ResAs("name", Nil)>>,
           Values(<<Row(<<P(1), P(2), P(3)>>)>>))
\* INSERT INTO users (id, name) VALUES ($2, $1)
InsValues ==
    Insert(RV("users"), <<ResAs("id", Nil), ResAs("name", Nil)>>,
           Values(<<Row(<<P(2), P(1)>>)>>))
\* UPDATE active_users SET name = 'x' WHERE id = 1
UpdView == Update(RV("active_users"), <<ResAs("name", Const)>>, Op(Col("id"), Const))
\* UPDATE users SET name = $2 WHERE id = $1
UpdUsers == Update(RV("users"), <<ResAs("name", P(2))>>, Op(Col("id"), P(1)))
\* DELETE FROM users
DelNoWhere == Delete(RV("users"), Nil)
\* DELETE FROM posts WHERE user_id = $2
DelPosts == Delete(RV("posts"), Op(Col("user_id"), P(2)))
\* WITH recent AS (SELECT id FROM users WHERE id > $1) SELECT id FROM recent WHERE id = $2
SelCTE ==
    With(<<CTE("recent", Select(<<Res(Col("id"))>>, <<RV("users")>>, Op(Col("id"), P(1))))>>,
         Select(<<Res(Col("id"))>>, <<RV("recent")>>, Op(Col("id"), P(2))))
\* SELECT id FROM recent
SelRecent == Select(<<Res(Col("id"))>>, <<RV("recent")>>, Nil)
\* SELECT x FROM (SELECT id AS x FROM users) sub
SelDerivedAs ==
    Select(<<Res(Col("x"))>>,
           <<Sub(Select(<<ResAs("x", Col("id"))>>, <<RV("users")>>, Nil), "sub", FALSE)>>, Nil)
\* SELECT id FROM (SELECT id FROM users WHERE name = $2) sub WHERE id = $1
SelDerived ==
    Select(<<Res(Col("id"))>>,
           <<Sub(Select(<<Res(Col("id"))>>, <<RV("users")>>, Op(Col("name"), P(2))),
                 "sub", FALSE)>>,
           Op(Col("id"), P(1)))
\* SELECT sub.name FROM (SELECT id FROM users WHERE name = $1) sub
SelDerivedWhereCol ==
    Select(<<Res(QCol("sub", "name"))>>,
           <<Sub(Select(<<Res(Col("id"))>>, <<RV("users")>>, Op(Col("name"), P(1))),
                 "sub", FALSE)>>, Nil)
\* SELECT p.id FROM posts p WHERE p.user_id = u.id
LateralBody ==
    Select(<<Res(QCol("p", "id"))>>, <<RVA("posts", "p")>>,
           Op(QCol("p", "user_id"), QCol("u", "id")))
\* SELECT u.id FROM users u, LATERAL (SELECT p.id FROM posts p WHERE p.user_id = u.id) q
SelLateralComma ==
    Select(<<Res(QCol("u", "id"))>>, <<RVA("users", "u"), Sub(LateralBody, "q", TRUE)>>, Nil)
\* SELECT u.id FROM users u JOIN LATERAL (SELECT p.id FROM posts p
\*   WHERE p.user_id = u.id) q ON true
SelLateralJoin ==
    Select(<<Res(QCol("u", "id"))>>,
           <<Join(RVA("users", "u"), Sub(LateralBody, "q", TRUE), Const)>>, Nil)
\* SELECT zzz FROM users
SelZzz == Select(<<Res(Col("zzz"))>>, <<RV("users")>>, Nil)
\* SELECT users.zzz FROM posts
SelUsersZzz == Select(<<Res(QCol("users", "zzz"))>>, <<RV("posts")>>, Nil)
\* SELECT 1 FROM missing
SelMissing == Select(<<Res(Const)>>, <<RV("missing")>>, Nil)
\* SELECT id FROM users WHERE id = $1 AND name = $3 AND email = $1 AND id = $2
SelAnd ==
    Select(<<Res(Col("id"))>>, <<RV("users")>>,
           And(<<Op(Col("id"), P(1)), Op(Col("name"), P(3)),
                 Op(Col("email"), P(1)), Op(Col("id"), P(2))>>))
\* SELECT $2 FROM users WHERE id = (SELECT user_id FROM posts WHERE title = $3)
SelSubLink ==
    Select(<<Res(P(2))>>, <<RV("users")>>,
           Op(Col("id"), SubLink(Select(<<Res(Col("user_id"))>>, <<RV("posts")>>,
                                        Op(Col("title"), P(3))))))
\* SELECT name FROM users GROUP BY name HAVING count(id) > $1
SelHaving ==
    [kind |-> "SelectStmt", targetList |-> <<Res(Col("name"))>>, fromClause |-> <<RV("users")>>,
     groupClause |-> <<Col("name")>>, havingClause |-> Op(Func(<<Col("id")>>), P(1))]

\* SELECT $x FROM users WHERE $y = $z, for all x, y, z in 1 .. MaxParam
SelParams(x, y, z) == Select(<<Res(P(x))>>, <<RV("users")>>, Op(P(y), P(z)))

ParamSelects ==
    LET n == MaxParam
    IN  [k \in 1..(n * n * n) |->
            SelParams(1 + ((k - 1) % n), 1 + (((k - 1) \div n) % n),
                      1 + (((k - 1) \div (n * n)) % n))]

\* SELECT name FROM users WHERE id = (SELECT id FROM (SELECT id FROM posts) users)
SelShadow ==
    Select(<<Res(Col("name"))>>, <<RV("users")>>,
           Op(Col("id"),
              SubLink(Select(<<Res(Col("id"))>>,
                             <<Sub(Select(<<Res(Col("id"))>>, <<RV("posts")>>, Nil),
                                   "users", FALSE)>>, Nil))))
\* WITH a AS (SELECT id FROM users) UPDATE a SET id = $1 WHERE id = $2
UpdCTE ==
    With(<<CTE("a", Select(<<Res(Col("id"))>>, <<RV("users")>>, Nil))>>,
         Update(RV("a"), <<ResAs("id", P(1))>>, Op(Col("id"), P(2))))
\* UPDATE active_users SET zzz = $1 WHERE zzz = $2
UpdViewZzz == Update(RV("active_users"), <<ResAs("zzz", P(1))>>, Op(Col("zzz"), P(2)))
\* UPDATE missing SET zzz = $1 WHERE zzz = $2
UpdMissing == Update(RV("missing"), <<ResAs("zzz", P(1))>>, Op(Col("zzz"), P(2)))
\* INSERT INTO active_users (id) VALUES ($1)
InsView == Insert(RV("active_users"), <<ResAs("id", Nil)>>, Values(<<Row(<<P(1)>>)>>))
\* DELETE FROM active_users WHERE id = $1
DelView == Delete(RV("active_users"), Op(Col("id"), P(1)))
\* DELETE FROM users WHERE $1
DelParam == Delete(RV("users"), P(1))
\* DELETE FROM users WHERE true
DelTrue == Delete(RV("users"), Const)
\* INSERT INTO users (id, name) VALUES ($1, $2), ($3)
InsTwoRows ==
    Insert(RV("users"), <<ResAs("id", Nil), ResAs("name", Nil)>>,
           Values(<<Row(<<P(1), P(2)>>), Row(<<P(3)>>)>>))
\* INSERT INTO users (id) VALUES ($2), ($1)
InsOneColumn ==
    Insert(RV("users"), <<ResAs("id", Nil)>>, Values(<<Row(<<P(2)>>), Row(<<P(1)>>)>>))
\* SELECT u.id FROM users u JOIN missing m ON m.id = u.id
SelJoinMissing ==
    Select(<<Res(QCol("u", "id"))>>,
           <<Join(RVA("users", "u"), RVA("missing", "m"), Op(QCol("m", "id"), QCol("u", "id")))>>,
           Nil)
\* DELETE FROM users USING missing WHERE users.id = $1
DelUsingMissing ==
    ("usingClause" :> <<RV("missing")>>) @@ Delete(RV("users"), Op(QCol("users", "id"), P(1)))
\* UPDATE users SET name = $1 FROM missing WHERE id = $2
UpdFromMissing ==
    ("fromClause" :> <<RV("missing")>>)
        @@ Update(RV("users"), <<ResAs("name", P(1))>>, Op(Col("id"), P(2)))
\* SELECT a.name FROM (SELECT name FROM users) a, (SELECT id FROM posts) users
SelTwice ==
    Select(<<Res(QCol("a", "name"))>>,
           <<Sub(Select(<<Res(Col("name"))>>, <<RV("users")>>, Nil), "a", FALSE),
             Sub(Select(<<Res(Col("id"))>>, <<RV("posts")>>, Nil), "users", FALSE)>>, Nil)
\* UPDATE users SET zzz = $1 WHERE id = $2
UpdZzz == Update(RV("users"), <<ResAs("zzz", P(1))>>, Op(Col("id"), P(2)))
\* SELECT id FROM users WHERE id = $1 AND zzz = $2
SelAndZzz ==
    Select(<<Res(Col("id"))>>, <<RV("users")>>,
           And(<<Op(Col("id"), P(1)), Op(Col("zzz"), P(2))>>))
\* a tree no SQL text parses to: the INSERT INTO users (id) VALUES ($1) whose
\* row of values is the ParamRef itself, without the List wrapper
InsBareRow == Insert(RV("users"), <<ResAs("id", Nil)>>, Values(<<P(1)>>))
\* SELECT u.id FROM users u
\*   WHERE u.id = (SELECT p.user_id FROM posts p WHERE p.user_id = u.id)
SelCorrelated ==
    Select(<<Res(QCol("u", "id"))>>, <<RVA("users", "u")>>,
           Op(QCol("u", "id"),
              SubLink(Select(<<Res(QCol("p", "user_id"))>>, <<RVA("posts", "p")>>,
                             Op(QCol("p", "user_id"), QCol("u", "id"))))))
\* UPDATE users SET name = p.title, email = $1 FROM posts p WHERE users.id = p.user_id
UpdFromCol ==
    ("fromClause" :> <<RVA("posts", "p")>>)
        @@ Update(RV("users"), <<ResAs("name", QCol("p", "title")), ResAs("email", P(1))>>,
                  Op(QCol("users", "id"), QCol("p", "user_id")))
\* UPDATE users SET name = $1 WHERE id = $2 AND zzz = $3
UpdAndZzz ==
    Update(RV("users"), <<ResAs("name", P(1))>>,
           And(<<Op(Col("id"), P(2)), Op(Col("zzz"), P(3))>>))
\* WITH users AS (SELECT title FROM posts) SELECT title FROM users
SelCTEUsers ==
    With(<<CTE("users", Select(<<Res(Col("title"))>>, <<RV("posts")>>, Nil))>>,
         Select(<<Res(Col("title"))>>, <<RV("users")>>, Nil))

\* the FROM clauses of the resolution scenarios: users; posts; users, posts;
\* users u; none
Froms == <<<<RV("users")>>, <<RV("posts")>>, <<RV("users"), RV("posts")>>,
           <<RVA("users", "u")>>, <<>>>>

\* the columns and the qualifiers the resolution scenarios name
ColumnNames == <<"id", "title", "zzz">>

Qualifiers == <<"users", "u", "posts">>

\* SELECT c FROM from
ColSelect(c, from) == Select(<<Res(Col(c))>>, from, Nil)

\* SELECT q.c FROM from
QColSelect(q, c, from) == Select(<<Res(QCol(q, c))>>, from, Nil)

\* SELECT c FROM from, for every column name and every FROM clause
ColSelects ==
    [k \in 1..(Len(ColumnNames) * Len(Froms)) |->
        ColSelect(ColumnNames[1 + ((k - 1) % Len(ColumnNames))],
                  Froms[1 + ((k - 1) \div Len(ColumnNames))])]

\* SELECT q.c FROM from, for every qualifier, every column name and the FROM
\* clauses `posts` and `users u`
QColSelects ==
    [k \in 1..(Len(Qualifiers) * Len(ColumnNames) * 2) |->
        QColSelect(Qualifiers[1 + ((k - 1) % Len(Qualifiers))],
                   ColumnNames[1 + (((k - 1) \div Len(Qualifiers)) % Len(ColumnNames))],
                   Froms[2 * (1 + ((k - 1) \div (Len(Qualifiers) * Len(ColumnNames))))])]

\* the statements of the catalogue
Statements ==
    <<SelUsers, SelAnd, SelJoin, SelJoinParam, InsMismatch, InsValues, UpdView, UpdUsers,
      DelNoWhere, DelPosts, SelCTE, SelRecent, SelDerivedAs, SelDerived,
      SelDerivedWhereCol, SelLateralComma, SelLateralJoin, SelZzz, SelUsersZzz,
      SelMissing, SelSubLink, SelHaving,
      Other("DropStmt"), Other("TruncateStmt"), Other("AlterTableStmt"),
      Other("CreateSchemaStmt"), Other("VariableSetStmt"), Other("CreateStmt"),
      SelShadow, UpdCTE, UpdViewZzz, UpdMissing, InsView, DelView, DelParam, DelTrue,
      InsTwoRows, InsOneColumn, SelJoinMissing, DelUsingMissing, UpdFromMissing, SelTwice,
      UpdZzz, SelAndZzz, InsBareRow, SelCorrelated, UpdFromCol, UpdAndZzz,
      SelCTEUsers>>
    \o ColSelects \o QColSelects \o ParamSelects

\* the parser's result: the "stmts" of the root, or its refusal of the text
Parsed(stmts) == [ok |-> TRUE, stmts |-> [i \in 1..Len(stmts) |-> [stmt |-> stmts[i]]]]

ParseError == [ok |-> FALSE, stmts |-> <<>>]

Inputs ==
    [i \in 1..Len(Statements) |-> Parsed(<<Statements[i]>>)]
    \o <<Parsed(<<>>),
         Parsed(<<SelCTE, SelRecent>>),
         Parsed(<<SelRecent, SelCTE>>),
         Parsed(<<SelUsers, SelZzz, SelCTE>>),
         Parsed(<<InsValues, DelPosts, UpdUsers>>),
         Parsed(<<SelDerived, SelDerivedWhereCol>>),
         ParseError>>

\* the schema of the scenarios: users, posts and the view active_users
TestTables ==
    ("users" :> Table("users", {"id", "name", "email"}, FALSE))
    @@ ("posts" :> Table("posts", {"id", "user_id", "title"}, FALSE))
    @@ ("active_users" :> Table("active_users", {"id", "name"}, TRUE))

\* the tables a caller hands to NewContext: a schema, or a nil map
Schemas == {[isNil |-> FALSE, Tables |-> TestTables], [isNil |-> TRUE, Tables |-> <<>>]}

----------------------------------------------------------------------------
(* Entry points: vet.go 242-275 *)

\* what an entry point returned: ValidateSqlQuery (params, err), with pnil
\* telling a nil slice; ValidateSqlQueries (list, err), with lnil likewise
Returned(params, pnil, list, lnil, e) ==
    [params |-> params, pnil |-> pnil, list |-> list, lnil |-> lnil, err |-> e]

NoReturn == Returned(<<>>, TRUE, <<>>, TRUE, NoErr)

\* what ValidateSqlQuery returns of the result r of jsonValidateQuery (251-252):
\* [ret, ctx], ctx the caller's context as its maps read afterwards
queryReturn(c, r) ==
    [ret |-> Returned(r.params, r.pnil, <<>>, TRUE, r.err), ctx |-> afterCall(c, r.ctx)]

\* ValidateSqlQuery(ctx, queryStr), in the parser's result for queryStr
validateSqlQuery(c, in) ==
    IF ~in.ok
    THEN [ret |-> Returned(<<>>, TRUE, <<>>, TRUE, Err("parse error", "", "")), ctx |-> c]
    ELSE queryReturn(c, jsonValidateQuery(c, in.stmts))

\* a round that drops the error of the result r and goes on
stepResultOn(c, o, r) ==
    [out |-> Append(o, r.params), err |-> NoErr, ctx |-> afterCall(c, r.ctx)]

\* a loop that goes on after a statement that failed
queriesStepOn(c, s, o) == stepResultOn(c, o, jsonValidateQuery(c, <<s>>))

\* what a round of the loop does with the result r of jsonValidateQuery
\* (268-272): [out, err, ctx]
stepResult(c, o, r) ==
    IF IsErr(r.err) THEN [out |-> o, err |-> r.err, ctx |-> afterCall(c, r.ctx)]
    ELSE [out |-> Append(o, r.params), err |-> NoErr, ctx |-> afterCall(c, r.ctx)]

\* one round of the loop of ValidateSqlQueries (266-273) on statement s
queriesStep(c, s, o) == stepResult(c, o, jsonValidateQuery(c, <<s>>))

----------------------------------------------------------------------------
(* The state machine.  A run exercises one of two components, which share  *)
(* no state: the validator (a caller that builds contexts with NewContext  *)
(* and calls the entry points) or the parameter collector (a list built by *)
(* AddQueryParam and AddQueryParams from the empty list).                  *)

\* the invocations of run, and the directories of their packages
Runs == 1..MaxRuns

Dirs == 1..MaxDirs

\* the analyzer's package-level state when the process starts (analyzer.go
\* 39-42), no run having begun
AnalyzerStart ==
    /\ analyzerSchemaLoaded = FALSE
    /\ analyzerSchema = 0
    /\ runAt = [r \in Runs |-> "check"]
    /\ stores = [r \in Runs |-> {}]
    /\ loads = 0
    /\ sites = [r \in Runs |-> 0]
    /\ siteTables = {}

Init ==
    /\ mode \in {"collector", "validator"}
    /\ tables \in Schemas
    /\ ctx = NewContext(tables)
    /\ calls = 0
    /\ pc = "idle"
    /\ op = "none"
    /\ input = 0
    /\ idx = 0
    /\ out = <<>>
    /\ ret = NoReturn
    /\ ctxAt = <<>>
    /\ target = <<>>
    /\ inserted = {}
    /\ AnalyzerStart
    /\ pkgDir = [r \in Runs |-> 1]

\* the caller builds a new context over its tables (analyzer.go 141)
CallNewContext ==
    /\ mode = "validator"
    /\ pc = "idle"
    /\ calls > 0
    /\ ctx' = NewContext(ctx.Schema)
    /\ calls' = 0
    /\ op' = "NewContext"
    /\ UNCHANGED <<analyzerVars, mode, tables, pc, input, idx, out, ret, ctxAt, target, inserted>>

CallValidateSqlQuery ==
    /\ mode = "validator"
    /\ pc = "idle"
    /\ calls < MaxCalls
    /\ \E i \in DOMAIN Inputs :
          \E r \in {validateSqlQuery(ctx, Inputs[i])} :
              /\ input' = i
              /\ ret' = r.ret
              /\ ctx' = r.ctx
              /\ ctxAt' = <<ctx>>
    /\ op' = "ValidateSqlQuery"
    /\ calls' = calls + 1
    /\ idx' = 0
    /\ out' = <<>>
    /\ UNCHANGED <<analyzerVars, mode, tables, pc, target, inserted>>

\* the texts ValidateSqlQueries is handed: every statement the catalogue names,
\* alone, the texts of several statements or none, and the text the parser
\* refuses
QueriesInputs ==
    {i \in DOMAIN Inputs :
        \/ i <= Len(Statements) - Len(ColSelects \o QColSelects \o ParamSelects)
        \/ i > Len(Statements)}

\* ValidateSqlQueries up to its loop: the parser's refusal is returned at once
BeginValidateSqlQueries ==
    /\ mode = "validator"
    /\ pc = "idle"
    /\ calls < MaxCalls
    /\ \E i \in QueriesInputs :
          /\ input' = i
          /\ IF Inputs[i].ok
             THEN pc' = "loop" /\ ret' = NoReturn
             ELSE pc' = "idle"
                  /\ ret' = Returned(<<>>, TRUE, <<>>, TRUE, Err("parse error", "", ""))
    /\ op' = "ValidateSqlQueries"
    /\ calls' = calls + 1
    /\ idx' = 0
    /\ out' = <<>>
    /\ ctxAt' = <<>>
    /\ UNCHANGED <<analyzerVars, mode, tables, ctx, target, inserted>>

\* one round of the loop: the next statement is validated
StepValidateSqlQueries ==
    /\ pc = "loop"
    /\ idx < Len(Inputs[input].stmts)
    /\ \E r \in {queriesStep(ctx, Inputs[input].stmts[idx + 1], out)} :
           /\ ctx' = r.ctx
           /\ out' = r.out
           /\ IF IsErr(r.err)
              THEN pc' = "idle" /\ ret' = Returned(<<>>, TRUE, <<>>, TRUE, r.err)
              ELSE pc' = "loop" /\ ret' = ret
    /\ idx' = idx + 1
    /\ ctxAt' = Append(ctxAt, ctx)
    /\ UNCHANGED <<analyzerVars, mode, tables, calls, op, input, target, inserted>>

\* the loop is over: return out, nil
ReturnValidateSqlQueries ==
    /\ pc = "loop"
    /\ idx = Len(Inputs[input].stmts)
    /\ pc' = "idle"
    /\ ret' = Returned(<<>>, TRUE, out, Len(out) = 0, NoErr)
    /\ UNCHANGED <<analyzerVars, mode, tables, ctx, calls, op, input, idx, out, ctxAt, target, inserted>>

CallAddQueryParam ==
    /\ mode = "collector"
    /\ \E n \in 1..MaxParam :
          /\ target' = AddQueryParam(target, n)
          /\ inserted' = inserted \cup {n}
    /\ UNCHANGED <<analyzerVars, mode, tables, ctx, calls, pc, op, input, idx, out, ret, ctxAt>>

\* the slices AddQueryParams is handed
Batches == UNION {[1..k -> 1..MaxParam] : k \in 0..MaxBatch}

CallAddQueryParams ==
    /\ mode = "collector"
    /\ \E ps \in Batches :
          /\ target' = AddQueryParams(target, ps)
          /\ inserted' = inserted \cup {ps[i] : i \in 1..Len(ps)}
    /\ UNCHANGED <<analyzerVars, mode, tables, ctx, calls, pc, op, input, idx, out, ret, ctxAt>>

Next ==
    \/ CallNewContext
    \/ CallValidateSqlQuery
    \/ BeginValidateSqlQueries
    \/ StepValidateSqlQueries
    \/ ReturnValidateSqlQueries
    \/ CallAddQueryParam
    \/ CallAddQueryParams

Spec == Init /\ [][Next]_vars

-----------------------------------------------------------------------------
(* The analyzer: analyzer.go 38-42, 73-152.  The driver runs `run` once per *)
(* package, in goroutines of one process; analyzerSchemaLoaded and          *)
(* analyzerSchema are plain package variables, read and written with no     *)
(* synchronisation, so a write of one goroutine reaches the others at some  *)
(* later moment, and the two writes of the load block in either order.      *)

\* the tables the load block gets for a package in directory d (76-95): those
\* of the schema sqlvet.toml names, and the empty map where the directory has
\* no sqlvet.toml
DirSchema(d) == [isNil |-> FALSE, Tables |-> IF d = 1 THEN TestTables ELSE <<>>]

\* what run r reads in the two variables: its own writes, else what has
\* reached the memory all goroutines read
SeesLoaded(r) == "loaded" \in stores[r] \/ analyzerSchemaLoaded

SeesSchema(r) == IF "schema" \in stores[r] THEN pkgDir[r] ELSE analyzerSchema

\* line 75: `if !analyzerSchemaLoaded`
RunCheck(r) ==
    /\ runAt[r] = "check"
    /\ runAt' = [runAt EXCEPT ![r] = IF SeesLoaded(r) THEN "inspect" ELSE "load"]
    /\ UNCHANGED <<vetVars, analyzerSchemaLoaded, analyzerSchema, pkgDir, stores, loads,
                   sites, siteTables>>

\* lines 76-97: the load block, ending with the two writes
RunLoad(r) ==
    /\ runAt[r] = "load"
    /\ loads' = loads + 1
    /\ stores' = [stores EXCEPT ![r] = {"schema", "loaded"}]
    /\ runAt' = [runAt EXCEPT ![r] = "inspect"]
    /\ UNCHANGED <<vetVars, analyzerSchemaLoaded, analyzerSchema, pkgDir, sites, siteTables>>

\* a write of run r's load block reaches the other goroutines
StoreVisible(r) ==
    /\ \E w \in stores[r] :
          /\ stores' = [stores EXCEPT ![r] = @ \ {w}]
          /\ IF w = "schema"
             THEN analyzerSchema' = pkgDir[r] /\ UNCHANGED analyzerSchemaLoaded
             ELSE analyzerSchemaLoaded' = TRUE /\ UNCHANGED analyzerSchema
    /\ UNCHANGED <<vetVars, pkgDir, runAt, loads, sites, siteTables>>

\* lines 140-141 for one query site: NewContext(analyzerSchema.Tables); a nil
\* analyzerSchema makes the field access panic
RunSite(r) ==
    /\ runAt[r] = "inspect"
    /\ sites[r] < MaxSites
    /\ IF SeesSchema(r) = 0
       THEN /\ runAt' = [runAt EXCEPT ![r] = "panic"]
            /\ UNCHANGED <<ctx, sites, siteTables>>
       ELSE /\ ctx' = NewContext(DirSchema(SeesSchema(r)))
            /\ sites' = [sites EXCEPT ![r] = @ + 1]
            /\ siteTables' = siteTables \cup {SeesSchema(r)}
            /\ UNCHANGED runAt
    /\ UNCHANGED <<mode, tables, calls, pc, op, input, idx, out, ret, ctxAt, target, inserted,
                   analyzerSchemaLoaded, analyzerSchema, pkgDir, stores, loads>>

\* line 151: every file of the package was inspected
RunReturn(r) ==
    /\ runAt[r] = "inspect"
    /\ sites[r] = MaxSites
    /\ runAt' = [runAt EXCEPT ![r] = "done"]
    /\ UNCHANGED <<vetVars, analyzerSchemaLoaded, analyzerSchema, pkgDir, stores, loads,
                   sites, siteTables>>

\* a process of the analyzer: the validator's variables as a caller's are
\* before its first call, the packages in any directories
AnalyzerInit ==
    /\ mode = "analyzer"
    /\ tables = DirSchema(1)
    /\ ctx = NewContext(tables)
    /\ calls = 0
    /\ pc = "idle"
    /\ op = "none"
    /\ input = 0
    /\ idx = 0
    /\ out = <<>>
    /\ ret = NoReturn
    /\ ctxAt = <<>>
    /\ target = <<>>
    /\ inserted = {}
    /\ AnalyzerStart
    /\ pkgDir \in [Runs -> Dirs]

AnalyzerNext ==
    \E r \in Runs :
        \/ RunCheck(r)
        \/ RunLoad(r)
        \/ StoreVisible(r)
        \/ RunSite(r)
        \/ RunReturn(r)

AnalyzerSpec == AnalyzerInit /\ [][AnalyzerNext]_vars

----------------------------------------------------------------------------
(* Vocabulary of the properties *)

StrictlyAscending(q) == \A i \in 1..(Len(q) - 1) : q[i] < q[i + 1]

Range(q) == {q[i] : i \in 1..Len(q)}

\* the fields of a node that hold a node, and those that hold a list of nodes
NodeKeys ==
    {"lexpr", "rexpr", "arg", "val", "larg", "rarg", "quals", "subquery", "subselect",
     "whereClause", "havingClause", "withClause", "ctequery", "selectStmt", "node", "over"}

ListKeys ==
    {"args", "items", "targetList", "fromClause", "groupClause", "sortClause",
     "windowClause", "valuesLists", "ctes", "cols", "usingClause", "returningList",
     "partitionClause", "orderClause"}

RECURSIVE Placeholders(_)
\* the numbers of the placeholders that appear anywhere in the tree n
Placeholders(n) ==
    (IF n.kind = "ParamRef" THEN {n.number} ELSE {})
    \cup UNION {Placeholders(n[k]) : k \in DOMAIN n \cap NodeKeys}
    \cup UNION {UNION {Placeholders(n[k][i]) : i \in DOMAIN n[k]} : k \in DOMAIN n \cap ListKeys}

\* the output names of a SELECT's target list: the AS name when one is given,
\* else the name of the column selected
Projection(sel) ==
    LET list == asList(sel, "targetList")
        name(rt) == IF getStringField(rt, "name") # "" THEN getStringField(rt, "name")
                    ELSE rt.val.fields[Len(rt.val.fields)].sval
    IN  {name(list[i]) : i \in {j \in DOMAIN list : "name" \in DOMAIN list[j]
                                                     \/ list[j].val.kind = "ColumnRef"}}

\* the last call was ValidateSqlQuery on a text of one statement, against
\* the schema of the scenarios
One == /\ op = "ValidateSqlQuery"
       /\ ~tables.isNil
       /\ Inputs[input].ok
       /\ Len(Inputs[input].stmts) = 1

Stmt == Inputs[input].stmts[1].stmt

\* the context of the last call was fresh from NewContext
Fresh == calls = 1

\* the last call validated exactly the text of statement s
Validated(s) == One /\ Fresh /\ Stmt = s

\* statement i of the batch as ValidateSqlQueries validated it, and as it is
\* validated alone in a new context over the same schema
InBatch(i) == jsonValidateQuery(ctxAt[i], <<Inputs[input].stmts[i]>>)

Alone(i) == jsonValidateQuery(NewContext(ctx.Schema), <<Inputs[input].stmts[i]>>)

RECURSIVE FromAliases(_)
\* the aliases of the derived tables in the FROM items of the list from,
\* joined items included
FromAliases(from) ==
    IF Len(from) = 0 THEN {}
    ELSE (CASE Head(from).kind = "RangeSubselect" -> {Head(from).alias.aliasname}
            [] Head(from).kind = "JoinExpr" ->
                   FromAliases(<<Head(from).larg, Head(from).rarg>>)
            [] OTHER -> {})
         \cup FromAliases(Tail(from))

\* the names a statement registers at its own level: the CTEs of its WITH
\* clause and the derived tables of its FROM clause
OwnNames(stmt) ==
    {asNode(stmt, "withClause").ctes[i].ctename :
        i \in DOMAIN asList(asNode(stmt, "withClause"), "ctes")}
    \cup FromAliases(asList(stmt, "fromClause"))

----------------------------------------------------------------------------
(* Properties *)

\* C1: the list built by AddQueryParam/AddQueryParams from the empty list is
\* strictly ascending, without duplicates, and holds exactly the numbers
\* inserted; so are the params a validation returns or gathers.
C1_ParamsAscending ==
    /\ StrictlyAscending(target)
    /\ Range(target) = inserted
    /\ StrictlyAscending(ret.params)
    /\ \A i \in 1..Len(ret.list) : StrictlyAscending(ret.list[i])
    /\ \A i \in 1..Len(out) : StrictlyAscending(out[i])

\* C1 witness: every number was inserted and the list holds them all
C1_Witness == mode = "collector" /\ inserted = 1..MaxParam /\ Len(target) = MaxParam

\* C2: the params of a statement that passes are exactly the distinct
\* placeholder numbers that appear anywhere in it, in ascending order.
C2_ParamsAreThePlaceholders ==
    (One /\ ~IsErr(ret.err)) =>
        /\ Range(ret.params) = Placeholders(Stmt)
        /\ StrictlyAscending(ret.params)

\* C3: a statement with a WITH clause registers each CTE under its name and
\* returns the placeholders of the CTE bodies too: the WITH recent query
\* returns [1, 2] and no error.
C3_CTERegisteredAndParams ==
    /\ (One /\ ~IsErr(ret.err) /\ "withClause" \in DOMAIN Stmt) =>
          \A i \in DOMAIN Stmt.withClause.ctes :
              /\ Stmt.withClause.ctes[i].ctename \in DOMAIN ctx.InnerSchema
              /\ Placeholders(Stmt.withClause.ctes[i].ctequery) \subseteq Range(ret.params)
    /\ Validated(SelCTE) => (~IsErr(ret.err) /\ ret.params = <<1, 2>>)

\* C4: the columns registered for a derived table are the projection of its
\* SELECT and nothing else; SELECT x FROM (SELECT id AS x FROM users) sub passes.
C4_DerivedColumnsAreProjection ==
    /\ (One /\ Fresh /\ Stmt.kind = "SelectStmt") =>
          \A i \in DOMAIN asList(Stmt, "fromClause") :
              LET it == Stmt.fromClause[i]
              IN  (it.kind = "RangeSubselect" /\ it.alias.aliasname \in DOMAIN ctx.InnerSchema)
                  => ctx.InnerSchema[it.alias.aliasname].Columns = Projection(it.subquery)
    /\ Validated(SelDerivedAs) => ~IsErr(ret.err)
    /\ Validated(SelDerivedWhereCol) => IsErr(ret.err)

\* C5: a LATERAL derived table sees the tables of the FROM items before it,
\* whether they are separated by commas or combined by JOIN.
C5_LateralSeesSiblings ==
    /\ Validated(SelLateralComma) => ~IsErr(ret.err)
    /\ Validated(SelLateralJoin) => ~IsErr(ret.err)

AcceptedKinds ==
    {"DropStmt", "TruncateStmt", "AlterTableStmt", "CreateSchemaStmt", "VariableSetStmt"}

ValidatedKinds == {"SelectStmt", "InsertStmt", "UpdateStmt", "DeleteStmt"}

\* C6: a top-level statement of an accepted kind returns (empty params, no
\* error); one of any other kind but the four validated ones returns the
\* unsupported-statement error.
C6_StatementDispatch ==
    One =>
        /\ Stmt.kind \in AcceptedKinds => (~IsErr(ret.err) /\ Len(ret.params) = 0)
        /\ Stmt.kind \notin (AcceptedKinds \cup ValidatedKinds)
               => ret.err = Err("unsupported statement", Stmt.kind, "")

\* C7: ValidateSqlQuery returns the empty-statement error for no statement
\* and the more-than-one-statement error for two or more, in both cases
\* without validating a statement or touching InnerSchema; exactly one
\* statement is handed to the statement validators.
C7_OneStatementOnly ==
    (op = "ValidateSqlQuery" /\ Inputs[input].ok) =>
        LET stmts == Inputs[input].stmts
            r == jsonValidateNode(ctxAt[1], stmts[1].stmt)
        IN  /\ Len(stmts) = 0 =>
                  (ret.err = Err("empty statement", "", "") /\ ret.pnil /\ ctx = ctxAt[1])
            /\ Len(stmts) > 1 =>
                  /\ ret.err = Err("query contained more than one statement", "", "")
                  /\ ret.pnil
                  /\ ctx = ctxAt[1]
            /\ Len(stmts) = 1 =>
                  /\ ret.err = r.err
                  /\ ret.params = r.params
                  /\ ctx = r.ctx

\* C7 witness: a text of two statements, the first of which would register a
\* CTE, was refused
C7_Witness ==
    /\ op = "ValidateSqlQuery"
    /\ Inputs[input] = Parsed(<<SelCTE, SelRecent>>)
    /\ ret.err.kind = "query contained more than one statement"

\* C8: ValidateSqlQueries validates the statements in order; it returns one
\* params list per statement when all pass, and the error of the first
\* statement that fails, with no list, without validating the later ones.
C8_InOrderFirstError ==
    (op = "ValidateSqlQueries" /\ Inputs[input].ok) =>
        LET n == Len(Inputs[input].stmts)
        IN  /\ Len(ctxAt) = idx
            /\ idx <= n
            /\ \A j \in 1..Len(out) : ~IsErr(InBatch(j).err) /\ out[j] = InBatch(j).params
            /\ (pc = "loop") => (Len(out) = idx /\ ~IsErr(ret.err))
            /\ (pc = "idle" /\ IsErr(ret.err)) =>
                  /\ ret.lnil
                  /\ Len(out) = idx - 1
                  /\ ret.err = InBatch(idx).err
                  /\ ctx = afterCall(ctxAt[idx], InBatch(idx).ctx)
            /\ (pc = "idle" /\ ~IsErr(ret.err)) =>
                  /\ idx = n
                  /\ ret.list = out
                  /\ Len(ret.list) = n

\* C8 witness: the second of three statements failed and the third, which
\* would register a CTE, was not validated
C8_Witness ==
    /\ op = "ValidateSqlQueries"
    /\ pc = "idle"
    /\ Inputs[input] = Parsed(<<SelUsers, SelZzz, SelCTE>>)
    /\ idx = 2
    /\ IsErr(ret.err)
    /\ "recent" \notin DOMAIN ctx.InnerSchema

\* C9: in ValidateSqlQueries each statement gets the params and the error it
\* gets when validated alone against the same schema.
C9_StatementsIndependent ==
    (op = "ValidateSqlQueries" /\ ~tables.isNil /\ Inputs[input].ok /\ Fresh) =>
        \A i \in 1..Len(ctxAt) :
            /\ InBatch(i).err = Alone(i).err
            /\ InBatch(i).params = Alone(i).params

\* C10: the schema handed in is the same before and after every call.
C10_SchemaNotMutated == ctx.Schema = tables

\* C10 witness: a call has registered a CTE or a derived table
C10_Witness ==
    /\ ~tables.isNil
    /\ pc = "idle"
    /\ op \in {"ValidateSqlQuery", "ValidateSqlQueries"}
    /\ DOMAIN ctx.InnerSchema # {}

\* C11: InnerSchema is scoped per query level: after a statement is validated
\* its InnerSchema holds no entry that a nested statement added, so a nested
\* derived table named like a table of the outer query does not change how
\* the outer query's columns resolve.
C11_InnerSchemaScoped ==
    /\ (One /\ Fresh) => DOMAIN ctx.InnerSchema \subseteq OwnNames(Stmt)
    /\ Validated(SelShadow) => ~IsErr(ret.err)

\* C12: every table held in InnerSchema, registered for a CTE, a derived
\* table or a LATERAL derived table, is read-only, in every state of a
\* validation.
C12_InnerTablesReadOnly ==
    /\ \A k \in DOMAIN ctx.InnerSchema : ctx.InnerSchema[k].ReadOnly
    /\ \A i \in DOMAIN ctxAt :
           \A k \in DOMAIN ctxAt[i].InnerSchema : ctxAt[i].InnerSchema[k].ReadOnly

\* C12 witness: InnerSchema holds a CTE and a LATERAL derived table
C12_Witness == {"recent", "q"} \subseteq DOMAIN ctx.InnerSchema

\* a statement that writes, the name of its target table, and the names its
\* own WITH clause declares
Writes(stmt) == stmt.kind \in {"InsertStmt", "UpdateStmt", "DeleteStmt"}

TargetName(stmt) == stmt.relation.relname

WithNames(stmt) ==
    {asNode(stmt, "withClause").ctes[i].ctename :
        i \in DOMAIN asList(asNode(stmt, "withClause"), "ctes")}

\* C13: an INSERT, UPDATE or DELETE whose target is read-only (a view of the
\* schema, or a CTE of the statement's own WITH clause) fails with the
\* read-only-table error, and one whose target is in no schema fails with the
\* invalid-table error, whatever the columns of the statement are.
C13_TargetChecked ==
    (One /\ Fresh /\ Writes(Stmt)) =>
        LET t == TargetName(Stmt)
            readOnly == \/ t \in WithNames(Stmt)
                        \/ t \in DOMAIN TestTables /\ TestTables[t].ReadOnly
            known == t \in WithNames(Stmt) \cup DOMAIN TestTables
        IN  /\ readOnly => ret.err.kind = "read-only table" /\ ret.err.a = t
            /\ ~known => ret.err.kind = "invalid table name" /\ ret.err.a = t

\* an expression of the catalogue mentions a column
RECURSIVE HasColumnRef(_)
HasColumnRef(n) ==
    CASE n.kind = "ColumnRef" -> TRUE
      [] n.kind = "A_Expr" -> HasColumnRef(n.lexpr) \/ HasColumnRef(n.rexpr)
      [] n.kind \in {"BoolExpr", "FuncCall"} ->
             \E i \in DOMAIN n.args : HasColumnRef(n.args[i])
      [] OTHER -> FALSE

\* the target of a writing statement is a table of the schema that is not
\* read-only, and the statement has no WITH clause
WritableTarget(stmt) ==
    /\ Writes(stmt)
    /\ WithNames(stmt) = {}
    /\ TargetName(stmt) \in DOMAIN TestTables
    /\ ~TestTables[TargetName(stmt)].ReadOnly

\* C14: a DELETE on a valid writable table without WHERE clause fails with
\* "no WHERE clause for DELETE"; one whose WHERE clause holds no column
\* reference fails with "no columns in DELETE's WHERE clause"; a DELETE that
\* is accepted has a WHERE clause that mentions a column.
C14_DeleteNeedsWhereColumn ==
    (One /\ Fresh /\ Stmt.kind = "DeleteStmt" /\ WritableTarget(Stmt)) =>
        LET wc == asNode(Stmt, "whereClause")
        IN  /\ IsNil(wc) => ret.err = Err("no WHERE clause for DELETE", "", "")
            /\ (~IsNil(wc) /\ ~HasColumnRef(wc)) =>
                   ret.err = Err("no columns in DELETE's WHERE clause", "", "")
            /\ ~IsErr(ret.err) => ~IsNil(wc) /\ HasColumnRef(wc)

\* C14 witness: DELETE FROM users WHERE $1 was refused for its WHERE clause
\* without columns
C14_Witness ==
    /\ Validated(DelParam)
    /\ ret.err.kind = "no columns in DELETE's WHERE clause"

\* the rows of the VALUES list of an INSERT, and the number of values of each
ValueRows(stmt) == asList(asNode(stmt, "selectStmt"), "valuesLists")

RowLen(row) == Len(row.items)

\* C15: an INSERT with a VALUES list on a valid writable table fails with the
\* column-count-mismatch error, naming the two counts, when a row has another
\* number of values than there are target columns, and does not fail with it
\* when every row has that number.
C15_ValueCountChecked ==
    (One /\ Fresh /\ Stmt.kind = "InsertStmt" /\ WritableTarget(Stmt)
         /\ Len(ValueRows(Stmt)) > 0
         /\ \A i \in DOMAIN ValueRows(Stmt) : ValueRows(Stmt)[i].kind = "List") =>
        LET n == Len(Stmt.cols)
            rows == ValueRows(Stmt)
            bad == {i \in DOMAIN rows : RowLen(rows[i]) # n}
        IN  /\ bad # {} =>
                   \E i \in bad :
                       /\ \A j \in bad : i <= j
                       /\ ret.err = ErrN("column count doesn't match value count",
                                         n, RowLen(rows[i]))
            /\ bad = {} => ret.err.kind # "column count doesn't match value count"

\* C15 witness: INSERT INTO users (id, name) VALUES ($1, $2, $3) was refused
\* for its three values against two columns
C15_Witness ==
    /\ Validated(InsMismatch)
    /\ ret.err = ErrN("column count doesn't match value count", 2, 3)

\* the last call validated, in a fresh context, a statement of the family
\* SELECT c FROM ..., resp. SELECT q.c FROM ...
IsColSelect == One /\ Fresh /\ \E k \in DOMAIN ColSelects : Stmt = ColSelects[k]

IsQColSelect == One /\ Fresh /\ \E k \in DOMAIN QColSelects : Stmt = QColSelects[k]

\* the column and the qualifier of the only target of such a statement
TargetFields == Stmt.targetList[1].val.fields

\* the tables its FROM clause names, and those of them that have column c
FromNames == {Stmt.fromClause[i].relname : i \in DOMAIN Stmt.fromClause}

Having(c) == {t \in FromNames : c \in TestTables[t].Columns}

\* C16: an unqualified column resolves if and only if at least one table of
\* the FROM clause has a column of that name; a column that several tables
\* have resolves too.
C16_UnqualifiedResolves ==
    IsColSelect => (~IsErr(ret.err) <=> Having(TargetFields[1].sval) # {})

\* C16 witness: SELECT id FROM users, posts passed, both tables having id
C16_Witness ==
    /\ Validated(ColSelect("id", <<RV("users"), RV("posts")>>))
    /\ Having("id") = {"users", "posts"}
    /\ ~IsErr(ret.err)

\* C17: when an unqualified column is in no table of the FROM clause, the
\* error names the table if the FROM clause names exactly one, with or
\* without an alias, and is the generic one if it names none or several.
C17_ErrorNamesOnlyTable ==
    (IsColSelect /\ Having(TargetFields[1].sval) = {}) =>
        IF Cardinality(FromNames) = 1
        THEN \E t \in FromNames :
                 ret.err = Err("column is not defined in table", TargetFields[1].sval, t)
        ELSE ret.err = Err("column is not defined in any of the table available for query",
                           TargetFields[1].sval, "")

\* the names a qualifier may take in such a statement: the real names and the
\* aliases of the tables of its FROM clause; and the table a name stands for
ScopeNames ==
    FromNames
    \cup {Stmt.fromClause[i].alias.aliasname :
             i \in {j \in DOMAIN Stmt.fromClause : "alias" \in DOMAIN Stmt.fromClause[j]}}

TableOf(q) ==
    CHOOSE t \in FromNames :
        \E i \in DOMAIN Stmt.fromClause :
            /\ Stmt.fromClause[i].relname = t
            /\ \/ q = t
               \/ "alias" \in DOMAIN Stmt.fromClause[i]
                  /\ Stmt.fromClause[i].alias.aliasname = q

\* C18: a qualified column q.c resolves when q is the real name or the alias
\* of a table of the FROM clause that has column c; when q is neither, the
\* error is "table q not available for query"; when the table lacks c, the
\* error is "column c is not defined in table q".
C18_QualifiedResolves ==
    IsQColSelect =>
        LET q == TargetFields[1].sval
            c == TargetFields[2].sval
        IN  IF q \notin ScopeNames
            THEN ret.err = Err("table not available for query", q, "")
            ELSE IF c \notin TestTables[TableOf(q)].Columns
            THEN ret.err = Err("column is not defined in table", c, q)
            ELSE ~IsErr(ret.err)

\* C18 witness: SELECT u.id FROM users u passed, by the alias
C18_Witness ==
    /\ Validated(QColSelect("u", "id", <<RVA("users", "u")>>))
    /\ TableOf("u") = "users"
    /\ ~IsErr(ret.err)

\* the table names the FROM items of a list name, joins included
RECURSIVE RangeVarNames(_)
RangeVarNames(from) ==
    IF Len(from) = 0 THEN {}
    ELSE (CASE Head(from).kind = "RangeVar" -> {Head(from).relname}
            [] Head(from).kind = "JoinExpr" ->
                   RangeVarNames(<<Head(from).larg, Head(from).rarg>>)
            [] OTHER -> {})
         \cup RangeVarNames(Tail(from))

\* the tables a statement references in FROM, JOIN or USING at its own level
ReferencedTables(stmt) ==
    RangeVarNames(asList(stmt, "fromClause"))
    \cup RangeVarNames(asList(stmt, "usingClause"))
    \cup RangeVarNames(asList(asNode(stmt, "selectStmt"), "fromClause"))

\* the referenced tables that are neither in Schema nor in InnerSchema, nor
\* declared by the statement's own WITH clause
MissingTables(stmt) ==
    {t \in ReferencedTables(stmt) :
        t \notin DOMAIN TestTables \cup DOMAIN ctx.InnerSchema \cup WithNames(stmt)}

\* C19: a statement that references in FROM, JOIN or USING a table that is
\* neither in Schema nor in InnerSchema fails with "invalid table name" for
\* that table, whether or not it references a column.
C19_MissingTableRefused ==
    (One /\ MissingTables(Stmt) # {}) =>
        /\ ret.err.kind = "invalid table name"
        /\ ret.err.a \in MissingTables(Stmt)

\* C19 witness: SELECT 1 FROM missing, which references no column, was refused
C19_Witness ==
    /\ Validated(SelMissing)
    /\ MissingTables(Stmt) = {"missing"}
    /\ ret.err = Err("invalid table name", "missing", "")

\* C20: two successive calls of ValidateSqlQuery with the same query on the
\* same VetContext return the same params and the same error.
C20_SameContextDeterministic ==
    [][(/\ op = "ValidateSqlQuery"
        /\ op' = "ValidateSqlQuery"
        /\ calls' = calls + 1
        /\ input' = input) => ret' = ret]_vars

\* C21: a call of ValidateSqlQuery that returns an error returns nil params
\* with it, whatever the statement and the error.
C21_ErrorOrParams ==
    (op = "ValidateSqlQuery" /\ IsErr(ret.err)) => (ret.pnil /\ ret.params = <<>>)

\* the RangeVar nodes of a list of FROM items, joins included
RECURSIVE RangeVarNodes(_)
RangeVarNodes(from) ==
    IF Len(from) = 0 THEN {}
    ELSE (CASE Head(from).kind = "RangeVar" -> {Head(from)}
            [] Head(from).kind = "JoinExpr" ->
                   RangeVarNodes(<<Head(from).larg, Head(from).rarg>>)
            [] OTHER -> {})
         \cup RangeVarNodes(Tail(from))

\* the columns a table name stands for after the call: those of the entry of
\* InnerSchema, or of the table of the schema, none for a name in neither
ColumnsOf(t) ==
    IF t \in DOMAIN ctx.InnerSchema THEN ctx.InnerSchema[t].Columns
    ELSE IF t \in DOMAIN TestTables THEN TestTables[t].Columns
    ELSE {}

\* the tables in scope at the level of a statement, each with the names a
\* qualifier may use for it and its columns: the target of a writing
\* statement, the tables of FROM, JOIN and USING, and the derived tables
Scope(stmt) ==
    {[names |-> {rv.relname}
                    \cup (IF "alias" \in DOMAIN rv THEN {rv.alias.aliasname} ELSE {}),
      cols |-> ColumnsOf(rv.relname)] :
        rv \in (IF Writes(stmt) THEN {stmt.relation} ELSE {})
                   \cup RangeVarNodes(asList(stmt, "fromClause"))
                   \cup RangeVarNodes(asList(stmt, "usingClause"))
                   \cup RangeVarNodes(asList(asNode(stmt, "selectStmt"), "fromClause"))}
    \cup {[names |-> {a}, cols |-> ColumnsOf(a)] : a \in FromAliases(asList(stmt, "fromClause"))}

\* a collected column resolves in a scope
Resolves(col, scope) ==
    \E e \in scope :
        /\ col.Column \in e.cols
        /\ col.Table # "" => col.Table \in e.names

\* the columns the statement validator collected in the last call
CollectedCols == jsonValidateQuery(ctxAt[1], Inputs[input].stmts).cols

\* C22: when a query passes validation against a non-nil schema, every
\* column the statement validator collected resolves to a table in scope at
\* its level, of Schema or InnerSchema, that has the column.
C22_CollectedColumnsResolve ==
    (One /\ ~IsErr(ret.err)) =>
        \A i \in DOMAIN CollectedCols : Resolves(CollectedCols[i], Scope(Stmt))

\* C22 witness: UPDATE users SET name = $2 WHERE id = $1 passed with the
\* columns users.name and id collected
C22_Witness ==
    /\ Validated(UpdUsers)
    /\ ~IsErr(ret.err)
    /\ CollectedCols = <<ColumnUsed("users", "name"), ColumnUsed("", "id")>>

\* the unqualified columns an expression mentions in its operands and
\* arguments, at its own query level
RECURSIVE ColumnsIn(_)
ColumnsIn(n) ==
    CASE n.kind = "ColumnRef" -> IF Len(n.fields) = 1 THEN {n.fields[1].sval} ELSE {}
      [] n.kind = "A_Expr" -> ColumnsIn(n.lexpr) \cup ColumnsIn(n.rexpr)
      [] n.kind \in {"BoolExpr", "FuncCall"} ->
             UNION {ColumnsIn(n.args[i]) : i \in DOMAIN n.args}
      [] OTHER -> {}

\* C23: the walker visits every operand of AND/OR and every argument of a
\* function call: a SELECT over the table users alone whose WHERE clause
\* mentions, in any operand, a column users does not have is refused.
C23_EveryOperandVisited ==
    (One /\ Fresh /\ Stmt.kind = "SelectStmt" /\ WithNames(Stmt) = {}
         /\ asList(Stmt, "fromClause") = <<RV("users")>>
         /\ ~IsNil(asNode(Stmt, "whereClause"))) =>
        ((ColumnsIn(Stmt.whereClause) \ TestTables["users"].Columns # {})
             => IsErr(ret.err))

\* a FROM item holds a LATERAL derived table, itself or in a join
RECURSIVE HasLateral(_)
HasLateral(n) ==
    CASE n.kind = "RangeSubselect" -> n.lateral
      [] n.kind = "JoinExpr" -> HasLateral(n.larg) \/ HasLateral(n.rarg)
      [] OTHER -> FALSE

\* the ParseResult the FROM loop of the last call's SELECT has after item i
FromWalk(i) == jsonParseFromClause(Stmt.fromClause[i], NewParseResult(ctxAt[1]))

\* C24: when the FROM traversal of a SELECT meets a LATERAL derived table, its
\* inner SELECT is not validated there: the node is on the postponed list
\* when the item has been walked, no error of the inner SELECT has been
\* returned and its alias is not registered yet.
C24_LateralPostponed ==
    (One /\ Fresh /\ Stmt.kind = "SelectStmt") =>
        \A i \in DOMAIN asList(Stmt, "fromClause") :
            HasLateral(Stmt.fromClause[i]) =>
                /\ Len(FromWalk(i).PostponedNodes.RangeSubselectNodes) > 0
                /\ ~IsErr(FromWalk(i).err)
                /\ FromAliases(<<Stmt.fromClause[i]>>) \cap DOMAIN FromWalk(i).ctx.InnerSchema = {}

\* C25: validation is total over malformed trees: jsonValidateQuery returns
\* params or an error for every tree and never panics.
C25_NeverPanics == ret.err.kind # "panic"

\* C26: a nested SELECT inherits the tables in scope at the enclosing levels
\* and resolves its columns against them and its own FROM clause, so that the
\* subquery of SelCorrelated resolves u.id; and the caller's UsedTables is the
\* same list before and after a validation.
C26_NestedInheritsScope ==
    /\ One => ctx.UsedTables = ctxAt[1].UsedTables
    /\ Validated(SelCorrelated) => ~IsErr(ret.err)

\* every column reference of an expression, qualified or not, as the column
\* the validators record for it
RECURSIVE ColumnRefsIn(_)
ColumnRefsIn(n) ==
    CASE n.kind = "ColumnRef" ->
             {IF Len(n.fields) = 1 THEN ColumnUsed("", n.fields[1].sval)
              ELSE ColumnUsed(n.fields[1].sval, n.fields[2].sval)}
      [] n.kind = "A_Expr" -> ColumnRefsIn(n.lexpr) \cup ColumnRefsIn(n.rexpr)
      [] n.kind \in {"BoolExpr", "FuncCall"} ->
             UNION {ColumnRefsIn(n.args[i]) : i \in DOMAIN n.args}
      [] OTHER -> {}

\* the columns an UPDATE must resolve: its SET targets, qualified by the
\* target table, the SET values that are a ColumnRef, and the columns of WHERE
UpdateColumns(stmt) ==
    {ColumnUsed(TargetName(stmt), stmt.targetList[i].name) : i \in DOMAIN stmt.targetList}
    \cup UNION {ColumnRefsIn(stmt.targetList[i].val) :
                    i \in {j \in DOMAIN stmt.targetList :
                              stmt.targetList[j].val.kind = "ColumnRef"}}
    \cup ColumnRefsIn(stmt.whereClause)

\* the numbers of the SET values that are a ParamRef
UpdateSetParams(stmt) ==
    {stmt.targetList[i].val.number :
        i \in {j \in DOMAIN stmt.targetList : stmt.targetList[j].val.kind = "ParamRef"}}

\* C27: an UPDATE of a writable table is accepted only if its SET targets, as
\* columns of the target table, its SET values that are a ColumnRef, and the
\* columns of its WHERE clause all resolve against the target table and the
\* tables of FROM; when it is accepted the SET targets are among the columns
\* collected and the numbers of the SET values that are a ParamRef among the
\* params.
C27_UpdateColumnsResolve ==
    (One /\ Fresh /\ Stmt.kind = "UpdateStmt" /\ WritableTarget(Stmt)
         /\ ~IsErr(ret.err)) =>
        /\ \A c \in UpdateColumns(Stmt) : Resolves(c, Scope(Stmt))
        /\ \A i \in DOMAIN Stmt.targetList :
               ColumnUsed(TargetName(Stmt), Stmt.targetList[i].name) \in Range(CollectedCols)
        /\ UpdateSetParams(Stmt) \subseteq Range(ret.params)

\* C28: in one process the load block is executed at most once, no query
\* site reads analyzerSchema before it is set, and every query site is
\* validated against the same table set, in a context whose InnerSchema is
\* fresh.
C28_LoadedOnce ==
    /\ loads <= 1
    /\ \A r \in Runs : runAt[r] # "panic"
    /\ Cardinality(siteTables) <= 1
    /\ ctx.InnerSchema = <<>>

\* the columns a table name stood for when the last call began: those of the
\* entry of InnerSchema if there was one, else those of the table of Schema
PriorColumns(t) ==
    IF t \in DOMAIN ctxAt[1].InnerSchema THEN ctxAt[1].InnerSchema[t].Columns
    ELSE TestTables[t].Columns

\* C29: a table name is looked up in InnerSchema first and in Schema only when
\* InnerSchema has no entry of that name: SELECT c FROM ..., validated in a
\* context that may hold entries named like base tables, passes if and only
\* if c is a column of what the names of its FROM clause stand for by that
\* rule; and a CTE named users replaces the columns of the base table users.
C29_InnerSchemaFirst ==
    /\ (One /\ \E k \in DOMAIN ColSelects : Stmt = ColSelects[k]) =>
           (~IsErr(ret.err) <=>
                \E t \in FromNames : TargetFields[1].sval \in PriorColumns(t))
    /\ Validated(SelCTEUsers) => ~IsErr(ret.err)

\* C29 witness: SELECT title FROM users passed under a CTE users whose only
\* column is title, which the base table users does not have
C29_Witness ==
    /\ Validated(SelCTEUsers)
    /\ ctx.InnerSchema["users"].Columns = {"title"}
    /\ "title" \notin TestTables["users"].Columns
    /\ ~IsErr(ret.err)

\* the last call validated one statement in a context whose Schema.Tables is nil
OneNil ==
    /\ op = "ValidateSqlQuery"
    /\ tables.isNil
    /\ Inputs[input].ok
    /\ Len(Inputs[input].stmts) = 1

\* the errors of the table and column checks
SchemaErrors ==
    {"invalid table name", "read-only table", "table not available for query",
     "column is not defined in table",
     "column is not defined in any of the table available for query"}

\* C30: with a nil Schema.Tables no call returns an error of the table and
\* column checks, and the structural errors are returned all the same:
\* unsupported statement, DELETE without WHERE or without columns in it,
\* INSERT with a row of another length than the column list.
C30_NilSchemaSkipsChecks ==
    OneNil =>
        /\ ret.err.kind \notin SchemaErrors
        /\ Stmt = Other("CreateStmt") => ret.err = Err("unsupported statement", "CreateStmt", "")
        /\ Stmt = DelNoWhere => ret.err = Err("no WHERE clause for DELETE", "", "")
        /\ Stmt \in {DelParam, DelTrue} =>
               ret.err = Err("no columns in DELETE's WHERE clause", "", "")
        /\ Stmt = InsMismatch =>
               ret.err = ErrN("column count doesn't match value count", 2, 3)

\* C30 witness: with a nil Schema.Tables, UPDATE missing SET zzz = $1 WHERE
\* zzz = $2 passed with its params
C30_Witness ==
    /\ OneNil
    /\ Stmt = UpdMissing
    /\ ~IsErr(ret.err)
    /\ ret.params = <<1, 2>>

====
